---------------------------- MODULE Spec2Model ----------------------------
(***************************************************************************)
(* autotranslate: the translation job pipeline (process_file), the         *)
(* directory monitor with its quota backoff (monitor_directory), the       *)
(* renewal countdown (num_seconds_till_renewal) and the web server's job   *)
(* scoreboard (unique_timestamp_key, run_translation).                     *)
(*                                                                         *)
(* Specifications:                                                         *)
(*   SpecRenewal  num_seconds_till_renewal applied to bounded inputs       *)
(*   SpecKey      concurrent calls of unique_timestamp_key                 *)
(*   Spec         monitor_directory polling the input directory and        *)
(*                calling process_file on each eligible entry              *)
(*   SpecWeb      run_translation: an upload, its scoreboard entry and     *)
(*                process_file with the scoreboard callbacks               *)
(*   SpecStop     monitor_directory with or without a stop event, which    *)
(*                is set at any moment                                     *)
(*   SpecPaths    generate_file_path_vars called by two invocations        *)
(*   SpecFile     main() in single file mode                               *)
(*   SpecBoard    the scoreboard callbacks applied to bounded scoreboards  *)
(*   SpecServer   the web server: initialization by the monitor thread,    *)
(*                an upload and its job, and the other request handlers    *)
(*   SpecClean    clean_filename and get_clean_input_file applied to       *)
(*                bounded names                                            *)
(*   SpecDirs     validate_directories at startup, and what main() does    *)
(*                with its result                                          *)
(*   SpecJobs     two on-demand jobs side by side, from the copy of the    *)
(*                configuration to the scoreboard callbacks                *)
(*   SpecPass     monitor_directory on a directory holding an entry that   *)
(*                is neither a regular file nor a directory                *)
(*   SpecThread   the monitor thread: run_directory_monitor with the       *)
(*                monitoring loop inside it                                *)
(*   SpecMain     the web server's main thread: the wait for the monitor   *)
(*                thread and the calls of graceful_exit                    *)
(*   SpecFlags    the web server's flags, set by the workers and the       *)
(*                monitor thread, and the pages index answers with         *)
(***************************************************************************)
EXTENDS Integers, Sequences, FiniteSets, TLC

VARIABLES
    rn_pc,          \* SpecRenewal: "call" before the call, "done" after it
    rn_day,         \* the renewal_date argument
    rn_default,     \* the default_days argument
    rn_now,         \* what pendulum.now("UTC") returns during the call
    rn_result,      \* the outcome of the call: [exc, value]
    clock,          \* the wall clock, in seconds (datetime.now())
    scoreboard,     \* the web server's dict: key -> ScoreboardEntry
    scoreboard_lock,\* the job whose thread holds scoreboard_lock, or NoHolder
    pc,             \* per process (the monitor, each job): where its code is
    j_file,         \* per job: the uploaded file's name (input_path is tmp_dir / it)
    j_base,         \* per job: unique_timestamp_key's local `base`
    j_counter,      \* per job: unique_timestamp_key's local `counter`
    j_key,          \* per job: the key unique_timestamp_key returned, or NoKey
    j_cfg,          \* per job: new_cfg, the clone of cfg made by run_translation
    cfg,            \* the shared Config built by init_autotranslate
    fs,             \* the regular files that exist: a set of <<directory, name>>
    handlers,       \* the per-job log handlers attached to the logger
    pf,             \* per process: the locals of its process_file invocation
    m_listing,      \* monitor: the entries of this pass's listing not yet visited
    m_wait,         \* monitor: wait_seconds of the quota handler
    m_slept,        \* monitor: the sleeps made since the last enumeration
    m_exc,          \* monitor: the exception that escaped monitor_directory
    stop_supplied,  \* whether monitor_directory was given a stop event
    stop_monitoring,\* whether the stop event is set
    is_quota_exceeded, \* web server global
    is_fatal_error, \* web server global
    cfg_is_inited,  \* web server global
    cfg_lock,       \* the thread that holds cfg_lock, or NoHolder
    monitor_thread_lock, \* the thread that holds monitor_thread_lock, or NoHolder
    rq,             \* the request handler thread: its position and locals
    ready_seen,     \* the job ids for which check_output has answered ready
    lock_io,        \* the I/O calls made so far while scoreboard_lock was held
    links,          \* the entries of the input directory that are not regular files
                    \* and not directories
    exit_done,      \* web server: the attribute graceful_exit.exit_done
    ge,             \* web server: per call of graceful_exit, its position
    main_pc,        \* web server: the position of the main thread in main()
    gp,             \* SpecPaths: per derivation, the call of generate_file_path_vars
    cf,             \* SpecClean: the calls of clean_filename and get_clean_input_file
    vd              \* SpecDirs: the directories and the call of validate_directories

renVars == <<rn_pc, rn_day, rn_default, rn_now, rn_result>>

\* the locals of unique_timestamp_key and its caller
keyLocals == <<j_file, j_base, j_counter, j_key>>

\* the monitor's own state
monVars == <<m_listing, m_wait, m_slept, m_exc, stop_supplied, stop_monitoring>>

\* the web server's flags
webFlags == <<is_quota_exceeded, is_fatal_error>>

\* the web server's request handling and initialization
srvVars == <<cfg_is_inited, monitor_thread_lock, rq, ready_seen>>

\* the web server's main thread and its calls of graceful_exit
exitVars == <<exit_done, ge, main_pc>>
pathVars == <<gp, cf, vd, links, exitVars>>

vars == <<rn_pc, rn_day, rn_default, rn_now, rn_result, clock,
          scoreboard, scoreboard_lock, pc, j_file, j_base, j_counter, j_key,
          j_cfg, cfg, fs, handlers, pf, m_listing, m_wait, m_slept, m_exc,
          stop_supplied, stop_monitoring, is_quota_exceeded, is_fatal_error,
          cfg_is_inited, cfg_lock, monitor_thread_lock, rq, ready_seen, lock_io, gp,
          cf, vd, links, exit_done, ge, main_pc>>

(***************************************************************************)
(* Bounds of the model.                                                    *)
(***************************************************************************)
\* the calendar years the current date is drawn from: BaseYear .. BaseYear+YearSpan-1
YearSpan == 2
\* how far outside 1..31 the renewal day is drawn
OutOfRangeSpan == 2
\* the number of on-demand jobs (requests to /run)
NumJobs == 3
\* the number of uploads handled by run_translation in SpecWeb
NumWebJobs == 1
\* the last second the wall clock reaches
MaxClock == 1
\* the longest file name given to clean_filename on its own
MaxNameLen == 3
\* the number of calls of the web server's graceful_exit
NumExitCalls == 3

(***************************************************************************)
(* Calendar arithmetic (what pendulum does for UTC date-times).            *)
(***************************************************************************)
\* first year of the modelled calendar, a leap year
BaseYear == 2024

SecondsPerDay == 24 * 60 * 60

IsLeap(y) == (y % 4 = 0 /\ y % 100 # 0) \/ (y % 400 = 0)

DaysInMonth(y, m) ==
    IF m = 2 THEN (IF IsLeap(y) THEN 29 ELSE 28)
    ELSE IF m \in {4, 6, 9, 11} THEN 30 ELSE 31

RECURSIVE DaysBeforeMonth(_, _)
DaysBeforeMonth(y, m) ==
    IF m = 1 THEN 0 ELSE DaysBeforeMonth(y, m - 1) + DaysInMonth(y, m - 1)

RECURSIVE DaysBeforeYear(_)
DaysBeforeYear(y) ==
    IF y <= BaseYear THEN 0
    ELSE DaysBeforeYear(y - 1) + (IF IsLeap(y - 1) THEN 366 ELSE 365)

\* day number of a date, counted from 1 January of BaseYear
Ordinal(y, m, d) == DaysBeforeYear(y) + DaysBeforeMonth(y, m) + d - 1

\* an instant in half seconds since 00:00 UTC of 1 January of BaseYear; the half
\* second stands for the sub-second part of pendulum.now()
Instant(t) == (Ordinal(t.year, t.month, t.day) * SecondsPerDay + t.sec) * 2 + t.half

\* pendulum.datetime(year, month, day, tz="UTC"): midnight of that day
Midnight(y, m, d) == [year |-> y, month |-> m, day |-> d, sec |-> 0, half |-> 0]

\* DateTime.add(months=1): next month, the day clamped to that month's length
AddOneMonth(t) ==
    LET y == IF t.month = 12 THEN t.year + 1 ELSE t.year
        m == IF t.month = 12 THEN 1 ELSE t.month + 1
        d == IF t.day > DaysInMonth(y, m) THEN DaysInMonth(y, m) ELSE t.day
    IN  [t EXCEPT !.year = y, !.month = m, !.day = d]

(***************************************************************************)
(* num_seconds_till_renewal(renewal_date, default_days), with the value of *)
(* pendulum.now("UTC") as a third argument.  The result is [exc, value]:   *)
(* exc is "none" when the call returns value, and the exception's name     *)
(* when it raises (pendulum.datetime raises ValueError for a day the       *)
(* month does not have).                                                   *)
(***************************************************************************)
\* the branch taken for a renewal day in 1..31 (lines 1502-1514)
RenewalCountdown(renewal_date, now) ==
    IF renewal_date < 1 \/ renewal_date > DaysInMonth(now.year, now.month)
    THEN [exc |-> "ValueError", value |-> 0]
    ELSE LET this_month == Midnight(now.year, now.month, renewal_date)
             renewal == IF Instant(this_month) <= Instant(now)
                        THEN AddOneMonth(this_month) ELSE this_month
             \* .add(days=1), then the difference truncated by int()
             next_renewal == Instant(renewal) + 2 * SecondsPerDay
         IN  [exc |-> "none", value |-> (next_renewal - Instant(now)) \div 2]

\* mutant: the range check lets day 0 and day 32 through
num_seconds_till_renewal_WideRange(renewal_date, default_days, now) ==
    IF 0 <= renewal_date /\ renewal_date <= 32
    THEN RenewalCountdown(renewal_date, now)
    ELSE [exc |-> "none", value |-> default_days * SecondsPerDay]

num_seconds_till_renewal(renewal_date, default_days, now) ==
    IF 1 <= renewal_date /\ renewal_date <= 31
    THEN RenewalCountdown(renewal_date, now)
    ELSE [exc |-> "none", value |-> default_days * SecondsPerDay]

\* the default of the default_days parameter
DEFAULT_DAYS == 7

RenewalDays == (0 - OutOfRangeSpan) .. (31 + OutOfRangeSpan)

DefaultDaysValues == {1, DEFAULT_DAYS}

Nows ==
    { t \in [year : BaseYear .. (BaseYear + YearSpan - 1), month : 1 .. 12,
             day : 1 .. 31, sec : {0, SecondsPerDay - 1}, half : {0, 1}] :
        t.day <= DaysInMonth(t.year, t.month) }

NoResult == [exc |-> "pending", value |-> 0]

RenewalIdle ==
    /\ rn_pc = "unused"
    /\ rn_day = 0
    /\ rn_default = DEFAULT_DAYS
    /\ rn_now = Midnight(BaseYear, 1, 1)
    /\ rn_result = NoResult

(***************************************************************************)
(* File names as sequences of one-character strings, and clean_filename.   *)
(***************************************************************************)
\* str.isspace / the regular expression \s
Whitespace == {" ", "\t"}

\* string.ascii_letters + string.digits + "-_.", cut to the modelled alphabet
SafeChars == {"a", "b", "d", "e", "f", "g", "l", "n", "o", "p", "t", "x",
              "A", "D", "F", "P", "0", "1", "2", "3", "4", "5", "6", "7", "8", "9",
              "-", "_", "."}

\* the characters of the modelled file names; a non-ASCII character is written as
\* its code point: U+00E9 e-acute, U+00C5 A-ring, U+00E5 a-ring, U+00A2 cent sign,
\* U+00F8 o-slash, U+2026 horizontal ellipsis
Chars == SafeChars \cup Whitespace \cup {"U+00E9", "U+00C5", "U+00E5", "U+00A2", "U+00F8", "#", "U+2026"}

MaxOf(S) == CHOOSE i \in S : \A k \in S : k <= i

\* name.rfind("."), 1-based; 0 when the name has no dot
LastDot(name) ==
    LET I == {i \in 1 .. Len(name) : name[i] = "."}
    IN  IF I = {} THEN 0 ELSE MaxOf(I)

\* pathlib's PurePath.suffix: from the last dot, unless it leads or ends the name
Suffix(name) ==
    LET i == LastDot(name)
    IN  IF 1 < i /\ i < Len(name) THEN SubSeq(name, i, Len(name)) ELSE <<>>

\* pathlib's PurePath.stem
Stem(name) ==
    LET i == LastDot(name)
    IN  IF 1 < i /\ i < Len(name) THEN SubSeq(name, 1, i - 1) ELSE name

\* str.lower() on the modelled alphabet
LowerChar(c) ==
    CASE c = "A" -> "a" [] c = "D" -> "d" [] c = "F" -> "f" [] c = "P" -> "p"
      [] c = "U+00C5" -> "U+00E5" [] OTHER -> c

Lower(name) == [i \in 1 .. Len(name) |-> LowerChar(name[i])]

\* str.strip()
RECURSIVE LStrip(_)
LStrip(s) == IF s # <<>> /\ Head(s) \in Whitespace THEN LStrip(Tail(s)) ELSE s

RECURSIVE RStrip(_)
RStrip(s) ==
    IF s # <<>> /\ s[Len(s)] \in Whitespace THEN RStrip(SubSeq(s, 1, Len(s) - 1)) ELSE s

Strip(s) == RStrip(LStrip(s))

\* re.sub(r"\s+", " ", name)
RECURSIVE CollapseWhitespace(_)
CollapseWhitespace(s) ==
    IF s = <<>> THEN <<>>
    ELSE IF Head(s) \in Whitespace
         THEN <<" ">> \o CollapseWhitespace(LStrip(s))
         ELSE <<Head(s)>> \o CollapseWhitespace(Tail(s))

\* every character c of s replaced by the sequence f[c]
RECURSIVE MapChars(_, _)
MapChars(f, s) == IF s = <<>> THEN <<>> ELSE f[Head(s)] \o MapChars(f, Tail(s))

\* name.replace(" ", "_")
SpaceToUnderscore == [c \in Chars |-> IF c = " " THEN <<"_">> ELSE <<c>>]

\* the manual replacements: A-ring -> "Aa", a-ring -> "aa", cent sign -> o-slash
ManualReplace ==
    [c \in Chars |-> CASE c = "U+00C5" -> <<"A", "a">> [] c = "U+00E5" -> <<"a", "a">>
                       [] c = "U+00A2" -> <<"U+00F8">> [] OTHER -> <<c>>]

\* unidecode: ASCII stays, the rest becomes its closest ASCII spelling
Unidecode ==
    [c \in Chars |-> CASE c = "U+00E9" -> <<"e">> [] c = "U+00F8" -> <<"o">> [] c = "U+00C5" -> <<"A">>
                       [] c = "U+00E5" -> <<"a">> [] c = "U+00A2" -> <<"C", "/">>
                       [] c = "U+2026" -> <<".", ".", ".">> [] OTHER -> <<c>>]

\* filter(lambda c: c in safechars, name)
RECURSIVE KeepSafe(_)
KeepSafe(s) ==
    IF s = <<>> THEN <<>>
    ELSE (IF Head(s) \in SafeChars THEN <<Head(s)>> ELSE <<>>) \o KeepSafe(Tail(s))

\* filtered_str of clean_filename, for the final component `name` of the path
filtered_name(name) ==
    LET joined == Strip(Stem(name)) \o Suffix(name)
        underscored == MapChars(SpaceToUnderscore, CollapseWhitespace(joined))
        ascii == MapChars(Unidecode, MapChars(ManualReplace, underscored))
    IN  KeepSafe(ascii)

\* clean_filename(file), for the final component `name` of the path: [exc, value]
clean_filename(name) ==
    LET filtered_str == filtered_name(name)
    IN  IF filtered_str = <<>> \/ filtered_str \in {<<".">>, <<".", ".">>}
        THEN [exc |-> "FilenameCleanseError", value |-> <<>>]
        ELSE [exc |-> "none", value |-> filtered_str]

(***************************************************************************)
(* The job scoreboard and unique_timestamp_key (autotranslate_web_server). *)
(***************************************************************************)
Jobs == 1 .. NumJobs

NoHolder == 0

NoKey == <<>>

NoPath == <<>>

\* f"{base}_{counter:03d}": the second, then the counter's digits, at least three
RECURSIVE Digits(_)
Digits(n) == IF n < 10 THEN <<n>> ELSE Append(Digits(n \div 10), n % 10)

ZeroPad3(n) ==
    LET d == Digits(n)
    IN  IF Len(d) >= 3 THEN d ELSE [i \in 1 .. (3 - Len(d)) |-> 0] \o d

KeyOf(base, counter) == <<base>> \o ZeroPad3(counter)

\* ScoreboardEntry(id=key, input_file=input_file); `by` is not a field of the
\* program: it records the job whose call inserted the entry
NewEntry(key, input_file, j) ==
    [id |-> key, input_file |-> input_file, log_file |-> NoPath,
     output_file |-> NoPath, by |-> j]

\* mutant: the lock excludes nobody
LockFree_NotExclusive(lock) == TRUE

\* `with scoreboard_lock:` can be entered
LockFree(lock) == lock = NoHolder

\* base = datetime.now().strftime(...); counter = 0
K_Start(j) ==
    /\ pc[j] = "k_start"
    /\ j_base' = [j_base EXCEPT ![j] = clock]
    /\ j_counter' = [j_counter EXCEPT ![j] = 0]
    /\ pc' = [pc EXCEPT ![j] = "k_acquire"]
    /\ UNCHANGED <<scoreboard, scoreboard_lock, j_file, j_key>>
    /\ UNCHANGED <<renVars, pathVars, srvVars, cfg_lock, lock_io, clock, j_cfg, cfg, fs, handlers, pf, monVars, webFlags>>

\* key = f"{base}_{counter:03d}"; with scoreboard_lock:
K_Acquire(j) ==
    /\ pc[j] = "k_acquire"
    /\ LockFree(scoreboard_lock)
    /\ scoreboard_lock' = j
    /\ pc' = [pc EXCEPT ![j] = "k_test"]
    /\ UNCHANGED <<scoreboard, keyLocals>>
    /\ UNCHANGED <<renVars, pathVars, srvVars, cfg_lock, lock_io, clock, j_cfg, cfg, fs, handlers, pf, monVars, webFlags>>

\* if key not in scoreboard:
K_Test(j) ==
    /\ pc[j] = "k_test"
    /\ pc' = [pc EXCEPT ![j] =
                IF KeyOf(j_base[j], j_counter[j]) \in DOMAIN scoreboard
                THEN "k_retry" ELSE "k_insert"]
    /\ UNCHANGED <<scoreboard, scoreboard_lock, keyLocals>>
    /\ UNCHANGED <<renVars, pathVars, srvVars, cfg_lock, lock_io, clock, j_cfg, cfg, fs, handlers, pf, monVars, webFlags>>

\* scoreboard[key] = ScoreboardEntry(id=key, input_file=input_file)
K_Insert(j) ==
    /\ pc[j] = "k_insert"
    /\ LET key == KeyOf(j_base[j], j_counter[j])
       IN  scoreboard' = [k \in DOMAIN scoreboard \cup {key} |->
                            IF k = key THEN NewEntry(key, <<"tmp", j_file[j]>>, j)
                            ELSE scoreboard[k]]
    /\ pc' = [pc EXCEPT ![j] = "k_return"]
    /\ UNCHANGED <<scoreboard_lock, keyLocals>>
    /\ UNCHANGED <<renVars, pathVars, srvVars, cfg_lock, lock_io, clock, j_cfg, cfg, fs, handlers, pf, monVars, webFlags>>

\* return key (leaving the with block releases the lock)
K_Return(j) ==
    /\ pc[j] = "k_return"
    /\ scoreboard_lock' = NoHolder
    /\ j_key' = [j_key EXCEPT ![j] = KeyOf(j_base[j], j_counter[j])]
    /\ pc' = [pc EXCEPT ![j] = "k_done"]
    /\ UNCHANGED <<scoreboard, j_file, j_base, j_counter>>
    /\ UNCHANGED <<renVars, pathVars, srvVars, cfg_lock, lock_io, clock, j_cfg, cfg, fs, handlers, pf, monVars, webFlags>>

\* mutant: a counter is skipped
NextCounter_Skipping(counter) == counter + 2

\* counter += 1
NextCounter(counter) == counter + 1

\* the with block is left without a return; counter += 1
K_Retry(j) ==
    /\ pc[j] = "k_retry"
    /\ scoreboard_lock' = NoHolder
    /\ j_counter' = [j_counter EXCEPT ![j] = NextCounter(j_counter[j])]
    /\ pc' = [pc EXCEPT ![j] = "k_acquire"]
    /\ UNCHANGED <<scoreboard, j_file, j_base, j_key>>
    /\ UNCHANGED <<renVars, pathVars, srvVars, cfg_lock, lock_io, clock, j_cfg, cfg, fs, handlers, pf, monVars, webFlags>>

unique_timestamp_key(j) ==
    \/ K_Start(j)
    \/ K_Acquire(j)
    \/ K_Test(j)
    \/ K_Insert(j)
    \/ K_Return(j)
    \/ K_Retry(j)

\* a second of wall-clock time passes
Tick ==
    /\ clock < MaxClock
    /\ clock' = clock + 1
    /\ UNCHANGED <<renVars, pathVars, srvVars, cfg_lock, lock_io, scoreboard, scoreboard_lock, pc, keyLocals, j_cfg, cfg,
                   fs, handlers, pf, monVars, webFlags>>

(***************************************************************************)
(* Paths, configurations and the external collaborators of process_file.   *)
(***************************************************************************)
\* the process of monitor_directory; the other processes are the jobs
Monitor == 0

Procs == {Monitor} \cup Jobs

Dir(path) == path[1]

Name(path) == path[2]

\* the entries the input directory can hold: two documents, a hidden file, a text
\* file, a sub-directory and a symbolic link whose target does not exist
UpperPdfName == <<"a", ".", "P", "D", "F">>

SpacedPdfName == <<"a", " ", "b", ".", "p", "d", "f">>

HiddenPdfName == <<".", "x", ".", "p", "d", "f">>

TextName == <<"n", ".", "t", "x", "t">>

SubDirName == <<"d", ".", "p", "d", "f">>

DocumentNames == {UpperPdfName, SpacedPdfName}

StaticNames == {HiddenPdfName, TextName}

SubDirNames == {SubDirName}

LinkName == <<"l", ".", "p", "d", "f">>

\* the entries that can be neither regular files nor directories
LinkNames == {LinkName}

\* the names an upload can have after secure_filename
UploadNames == {<<"a", ".", "p", "d", "f">>, <<"b", ".", "p", "d", "f">>}

\* datetime.now().strftime(...), one character for each digit of the second
DigitChars == <<"0", "1", "2", "3", "4", "5", "6", "7", "8", "9">>

Timestamp(t) == [i \in 1 .. Len(Digits(t)) |-> DigitChars[Digits(t)[i] + 1]]

\* create_tmp_file_path(input_file, tmp_dir) at second t
create_tmp_file_path(input_file, t) ==
    <<"tmp", Stem(Name(input_file)) \o <<"_">> \o Timestamp(t) \o Suffix(Name(input_file))>>

\* the log_file_path of add_file_logger(log_dir, log_filename) at second t
LogFilePath(log_filename, t) ==
    <<"log", Stem(log_filename) \o <<"_">> \o Timestamp(t) \o <<".", "l", "o", "g">>>>

NotSent == <<>>

NoPaths == [input |-> NoPath, tmp |-> NoPath, output |-> NoPath]

\* the locals of a process_file invocation.  conn, send, notify, deleted and trace
\* are not variables of the program: they record what confirm_api_connection,
\* send_document_to_server and the notifier did, the paths handed to delete_file,
\* and the stages run
PfIdle ==
    [arg |-> NoPath, log |-> NoPath, handler |-> NoPath, paths |-> NoPaths,
     result |-> FALSE, outcome |-> "none", conn |-> "none", send |-> NotSent,
     notify |-> "none", deleted |-> <<>>, trace |-> <<>>]

\* Config: the fields the pipeline and the monitor read.  callbacks stands for
\* callback_on_local_log_file and callback_on_file_complete, set together
DefaultPollMinutes == 15

DefaultCfg ==
    [translate_filename |-> FALSE, target_lang |-> "EN-US", usage_renewal_day |-> 0,
     check_period_min |-> DefaultPollMinutes, callbacks |-> FALSE]

SharedCfgs ==
    [translate_filename : BOOLEAN, target_lang : {"EN-US"}, usage_renewal_day : {0, 31},
     check_period_min : {DefaultPollMinutes}, callbacks : {FALSE}]

\* new_cfg of run_translation: the form's target language is not validated
JobCfgs(shared) ==
    { [shared EXCEPT !.translate_filename = c[1], !.target_lang = c[2], !.callbacks = TRUE] :
        c \in {<<FALSE, "EN-US">>, <<TRUE, "EN-US">>, <<TRUE, "xx">>} }

CfgOf(p) == IF p = Monitor THEN cfg ELSE j_cfg[p]

\* deepl_to_google_code(deepl_code): None (here "none") for an unsupported code
deepl_to_google_code(deepl_code) == IF deepl_code = "EN-US" THEN "en" ELSE "none"

UnderscoreToSpace == [c \in Chars |-> IF c = "_" THEN <<" ">> ELSE <<c>>]

\* the exceptions of the translator that translate_string catches (lines 1233-1235)
CaughtByTranslateString == {"RequestError", "TooManyRequests", "TranslationNotFound"}

\* what GoogleTranslator(...).translate(text) can do for a text: return a
\* translation, raise one of the exceptions of deep_translator, or fail to reach
\* the service (the ConnectionError of requests, which deep_translator lets through)
TranslatorOutcomes(text) ==
    {[exc |-> "none", text |-> <<"t", " ", "x">>]}
    \cup {[exc |-> e, text |-> <<>>] : e \in CaughtByTranslateString \cup {"ConnectionError"}}

\* translate_string(orig_string, target_lang_short), given what the translator
\* did: [exc, value]; the translated text with its spaces made underscores, or
\* orig_string when the translator raised an exception that is caught
translate_string(orig_string, outcome) ==
    IF outcome.exc = "none"
    THEN [exc |-> "none", value |-> MapChars(SpaceToUnderscore, outcome.text)]
    ELSE IF outcome.exc \in CaughtByTranslateString
         THEN [exc |-> "none", value |-> orig_string]
         ELSE [exc |-> outcome.exc, value |-> <<>>]

\* mutant: the copy is made whether or not the name changed
get_clean_input_file_AlwaysCopies(file, files) ==
    LET clean == clean_filename(Name(file))
        copy == <<"tmp", clean.value>>
    IN  IF clean.exc # "none"
        THEN {[exc |-> "UnboundLocalError", value |-> NoPath, fs |-> files]}
        ELSE {[exc |-> "none", value |-> NoPath, fs |-> files]}
             \cup (IF file \in files
                   THEN {[exc |-> "none", value |-> copy, fs |-> files \cup {copy}]}
                   ELSE {})

\* get_clean_input_file(file, tmp_dir): the possible [exc, value, fs]; value is
\* NoPath for None.  shutil.copy2 fails when the file is missing, and can fail
\* otherwise.  When clean_filename raises, the except clause reads file_path,
\* which is not yet assigned (line 1106): UnboundLocalError
get_clean_input_file(file, files) ==
    LET clean == clean_filename(Name(file))
        copy == <<"tmp", clean.value>>
    IN  IF clean.exc # "none"
        THEN {[exc |-> "UnboundLocalError", value |-> NoPath, fs |-> files]}
        ELSE IF clean.value # Name(file)
             THEN {[exc |-> "none", value |-> NoPath, fs |-> files]}
                  \cup (IF file \in files
                        THEN {[exc |-> "none", value |-> copy, fs |-> files \cup {copy}]}
                        ELSE {})
             ELSE {[exc |-> "none", value |-> file, fs |-> files]}

\* "unused" when generate_file_path_vars does not call the translator
NotTranslated == "unused"

\* lines 1059-1069: the possible [exc, name, xlate] for the output name; xlate is
\* what the translator did
OutputNames(file_path, input_file_path, c) ==
    IF c.translate_filename /\ deepl_to_google_code(c.target_lang) # "none"
    THEN { LET r == translate_string(Stem(Name(file_path)), o)
           IN  [exc |-> r.exc, name |-> r.value \o Suffix(Name(file_path)),
                xlate |-> o.exc]
           : o \in TranslatorOutcomes(MapChars(UnderscoreToSpace, Stem(Name(file_path)))) }
    ELSE {[exc |-> "none", name |-> Name(input_file_path), xlate |-> NotTranslated]}

\* generate_file_path_vars(file_path, cfg) at second t: the possible
\* [exc, paths, fs, xlate]; paths is NoPaths for None
generate_file_path_vars(file_path, c, files, t) ==
    UNION { IF r.value = NoPath
            THEN {[exc |-> r.exc, paths |-> NoPaths, fs |-> r.fs, xlate |-> NotTranslated]}
            ELSE { [exc |-> o.exc,
                    paths |-> IF o.exc # "none" THEN NoPaths
                              ELSE [input |-> r.value,
                                    tmp |-> create_tmp_file_path(r.value, t),
                                    output |-> <<"output", o.name>>],
                    fs |-> r.fs, xlate |-> o.xlate]
                   : o \in OutputNames(file_path, r.value, c) }
          : r \in get_clean_input_file(file_path, files) }

\* confirm_api_connection: the client is opened ("ok") or the named exception is
\* raised (log_and_raise re-raises what deepl.DeepLClient raised)
ConnectOutcomes ==
    {"ok", "AuthorizationException", "ConnectionException", "DeepLException",
     "ValueError", "OSError"}

\* mutant: process_file catches nothing around the translation
CaughtByProcessFile_Nothing == {}

\* the exceptions process_file catches around the translation (lines 990-996)
CaughtByProcessFile == {"PermissionError", "OSError"}

\* DEBUG_NO_SEND_FILE is True in the source; both settings are modelled
DEBUG_NO_SEND_FILE_Values == BOOLEAN

\* the text the code compares errMsg with, as <<sentence, ".">>
QuotaSentence == "Quota for this billing period has been exceeded"

\* the messages a DocumentTranslationException can carry
DocumentErrorMessages == {<<QuotaSentence>>, <<"Error occurred while translating document">>}

\* errMsg = str(error).replace(', document handle: ' + docHNDL, '.')
ErrMsg(message) == Append(message, ".")

\* mutant: a document error is never taken for a quota failure
IsQuotaMessage_Never(errMsg) == FALSE

\* errMsg == "Quota for this billing period has been exceeded."
IsQuotaMessage(errMsg) == errMsg = <<QuotaSentence, ".">>

\* send_document_to_server(source_file, result_file, ...): the possible
\* [exc, result, fs, send]; send is what the provider (or the debug copy) did: the
\* exception it raised, with its message for a DocumentTranslationException
send_document_to_server(source_file, result_file, files) ==
    UNION { IF debug
            THEN {[exc |-> "none", result |-> FALSE, fs |-> files,
                   send |-> <<"copy_failed">>]}
                 \cup (IF source_file \in files
                       THEN {[exc |-> "none", result |-> TRUE,
                              fs |-> files \cup {result_file}, send |-> <<"copied">>]}
                       ELSE {})
            ELSE {[exc |-> "none", result |-> TRUE, fs |-> files \cup {result_file},
                   send |-> <<"translated">>],
                  [exc |-> "QuotaExceededException", result |-> FALSE, fs |-> files,
                   send |-> <<"QuotaExceededException">>],
                  [exc |-> "none", result |-> FALSE, fs |-> files,
                   send |-> <<"Exception">>]}
                 \cup { [exc |-> IF IsQuotaMessage(ErrMsg(m))
                                 THEN "QuotaExceededException" ELSE "none",
                         result |-> FALSE, fs |-> files,
                         send |-> <<"DocumentTranslationException">> \o m]
                       : m \in DocumentErrorMessages }
          : debug \in DEBUG_NO_SEND_FILE_Values }

\* append_pdfs(original_pdf, translated_pdf, output_pdf, ...): the possible
\* [result, fs]; the merge can fail, and fails when a document is missing
append_pdfs(original_pdf, translated_pdf, output_pdf, files) ==
    {[result |-> FALSE, fs |-> files]}
    \cup (IF original_pdf \in files /\ translated_pdf \in files
          THEN {[result |-> TRUE, fs |-> files \cup {output_pdf}]} ELSE {})

\* delete_file(filename): the files afterwards; unlink removes an existing file when
\* `unlink_ok`, and otherwise raises an error that delete_file absorbs
delete_file(filename, files, unlink_ok) ==
    IF filename \in files /\ unlink_ok THEN files \ {filename} ELSE files

\* whether unlink succeeds during one cleanup
UnlinkOutcomes == BOOLEAN

\* mutant: the original is handed to delete_file without the test of line 1008
CleanupDeletions_Unconditional(file_path, paths, files) ==
    { LET f1 == delete_file(paths.tmp, files, unlink_ok)
          f2 == delete_file(paths.input, f1, unlink_ok)
      IN  [fs |-> delete_file(file_path, f2, unlink_ok),
           deleted |-> <<paths.tmp, paths.input, file_path>>]
      : unlink_ok \in UnlinkOutcomes }

\* the deletions of lines 1006-1009: the possible [fs, deleted]; deleted lists the
\* paths handed to delete_file
CleanupDeletions(file_path, paths, files) ==
    { LET f1 == delete_file(paths.tmp, files, unlink_ok)
          f2 == delete_file(paths.input, f1, unlink_ok)
      IN  [fs |-> IF file_path \in f2 THEN delete_file(file_path, f2, unlink_ok) ELSE f2,
           deleted |-> <<paths.tmp, paths.input>>
                       \o (IF file_path \in f2 THEN <<file_path>> ELSE <<>>)]
      : unlink_ok \in UnlinkOutcomes }

(***************************************************************************)
(* Calls of generate_file_path_vars by two invocations of process_file.    *)
(***************************************************************************)
\* the two invocations whose paths are compared
Derivations == {1, 2}

NoDerivation == [exc |-> "none", paths |-> NoPaths, fs |-> {}, xlate |-> NotTranslated]

\* per derivation: the arguments file_path and cfg, the second datetime.now()
\* returns, and the result chosen among those of generate_file_path_vars
GpIdle ==
    [pc |-> "unused", arg |-> NoPath, cfg |-> DefaultCfg, t |-> 0,
     result |-> NoDerivation]

\* file_paths = generate_file_path_vars(file_path, cfg)
GP_Call(k) ==
    /\ gp[k].pc = "call"
    /\ \E r \in generate_file_path_vars(gp[k].arg, gp[k].cfg, fs, gp[k].t) :
         /\ gp' = [gp EXCEPT ![k].pc = "done", ![k].result = r]
         /\ fs' = r.fs
    /\ UNCHANGED <<renVars, srvVars, cfg_lock, lock_io, clock, scoreboard, scoreboard_lock,
                   pc, keyLocals, j_cfg, cfg, handlers, pf, monVars, webFlags, cf, vd, links, exitVars>>

(***************************************************************************)
(* Calls of clean_filename and get_clean_input_file on bounded names.      *)
(***************************************************************************)
\* the characters the names are drawn from: a letter, the dot, the underscore, two
\* kinds of whitespace, a character that is not allowed and two non-ASCII ones
CleanChars == {"a", ".", "_", " ", "\t", "#", "U+00E9", "U+2026"}

RECURSIVE NamesOfLen(_)
NamesOfLen(n) ==
    IF n = 0 THEN {<<>>}
    ELSE {Append(s, c) : s \in NamesOfLen(n - 1), c \in CleanChars}

\* the file names given to clean_filename
CleanNames == UNION {NamesOfLen(n) : n \in 1 .. MaxNameLen}

NoCall == [exc |-> "pending", value |-> <<>>]

NoCopy == [exc |-> "pending", value |-> NoPath, fs |-> {}]

CfIdle == [pc |-> "unused", name |-> <<>>, first |-> NoCall, second |-> NoCall, copy |-> NoCopy]

\* what the calls on their own leave alone
callFrame == <<renVars, srvVars, cfg_lock, lock_io, clock, scoreboard, scoreboard_lock,
               pc, keyLocals, j_cfg, cfg, handlers, pf, monVars, webFlags, gp>>

\* clean_name = clean_filename(file)
CF_Clean ==
    /\ cf.pc = "call"
    /\ cf' = [cf EXCEPT !.pc = "cleaned", !.first = clean_filename(cf.name)]
    /\ UNCHANGED <<fs, vd, links, exitVars, callFrame>>

\* clean_filename applied to the name it returned
CF_Again ==
    /\ cf.pc = "cleaned"
    /\ cf' = [cf EXCEPT !.pc = "again",
                        !.second = IF cf.first.exc = "none" THEN clean_filename(cf.first.value)
                                   ELSE NoCall]
    /\ UNCHANGED <<fs, vd, links, exitVars, callFrame>>

\* get_clean_input_file(file, tmp_dir) for the file of that name in the input
\* directory
CF_Copy ==
    /\ cf.pc = "again"
    /\ \E r \in get_clean_input_file(<<"input", cf.name>>, fs) :
         /\ cf' = [cf EXCEPT !.pc = "done", !.copy = r]
         /\ fs' = r.fs
    /\ UNCHANGED <<vd, links, exitVars, callFrame>>

(***************************************************************************)
(* validate_directories(cfg), called at the end of init_autotranslate.     *)
(***************************************************************************)
\* the keys of `dirs`, in the order the loop visits them
DirKeys == <<"input_dir", "output_dir", "tmp_dir", "log_dir">>

\* what a configured directory can be: there and writable, not there but
\* creatable, not creatable (mkdir raises OSError), or there but not writable
DirStates == {"writable", "absent", "uncreatable", "readonly"}

\* path.mkdir(parents=True, exist_ok=True)
mkdir(state) ==
    IF state = "uncreatable" THEN [exc |-> "OSError", state |-> state]
    ELSE [exc |-> "none", state |-> IF state = "absent" THEN "writable" ELSE state]

\* mutant: a failure of the log directory is fatal too
IsFatalDir_All(name) == TRUE

\* `if name == "log_dir"`: warn and go on; otherwise raise ConfigurationError
IsFatalDir(name) == name # "log_dir"

\* the loop of validate_directories from the i-th key on: [exc, dirs], where dirs
\* is what the directories are afterwards
RECURSIVE ValidateFrom(_, _)
ValidateFrom(i, dirs) ==
    IF i > Len(DirKeys) THEN [exc |-> "none", dirs |-> dirs]
    ELSE LET name == DirKeys[i]
             made == mkdir(dirs[name])
             after == [dirs EXCEPT ![name] = made.state]
             failed == made.exc # "none" \/ made.state # "writable"
         IN  IF failed /\ IsFatalDir(name)
             THEN [exc |-> "ConfigurationError", dirs |-> after]
             ELSE ValidateFrom(i + 1, after)

validate_directories(dirs) == ValidateFrom(1, dirs)

NoValidation == [exc |-> "pending", dirs |-> << >>]

VdIdle ==
    [pc |-> "unused", dirs |-> [n \in {DirKeys[i] : i \in 1 .. Len(DirKeys)} |-> "writable"],
     before |-> << >>, result |-> NoValidation]

\* validate_directories(cfg) in init_autotranslate
VD_Call ==
    /\ vd.pc = "call"
    /\ LET r == validate_directories(vd.dirs)
       IN  vd' = [vd EXCEPT !.pc = "validated", !.result = r, !.dirs = r.dirs]
    /\ UNCHANGED <<fs, cf, links, exitVars, callFrame>>

\* main(): ConfigurationError from init_autotranslate ends the program with
\* graceful_exit(2); otherwise the work starts
VD_Main ==
    /\ vd.pc = "validated"
    /\ vd' = [vd EXCEPT !.pc = IF vd.result.exc = "none" THEN "working" ELSE "exit_2"]
    /\ UNCHANGED <<fs, cf, links, exitVars, callFrame>>

(***************************************************************************)
(* process_file(file_path, cfg), run by process p (autotranslate.py).      *)
(***************************************************************************)
\* what a process_file action never changes
pfFrame == <<renVars, pathVars, srvVars, cfg_lock, lock_io, clock, keyLocals, j_cfg, cfg, monVars, webFlags>>

\* the same without the record of what was done under scoreboard_lock
pfFrameIo == <<renVars, pathVars, srvVars, cfg_lock, clock, keyLocals, j_cfg, cfg, monVars, webFlags>>

\* the FileHandler made by add_file_logger: an object distinct from every handler
\* attached to the logger
NewHandler(p, log_file_path, attached) ==
    <<p, log_file_path,
      CHOOSE k \in 0 .. Cardinality(attached) : <<p, log_file_path, k>> \notin attached>>

NoHandler == <<>>

\* process_file is left: `outcome` is "True" or "False" for a returned value,
\* otherwise the name of the exception that propagates to the caller
Leave(p, outcome, locals) ==
    /\ pf' = [pf EXCEPT ![p] = [locals EXCEPT !.outcome = outcome]]
    /\ pc' = [pc EXCEPT ![p] = "pf_done"]

Stage(locals, stage) == [locals EXCEPT !.trace = Append(locals.trace, stage)]

\* file_handler, log_file_path = add_file_logger(cfg.log_dir, file_path.name)
PF_Start(p) ==
    /\ pc[p] = "pf_start"
    /\ \E opened \in BOOLEAN :
         LET log_file_path == LogFilePath(Name(pf[p].arg), clock)
             file_handler == IF opened THEN NewHandler(p, log_file_path, handlers)
                             ELSE NoHandler
         IN  /\ pf' = [pf EXCEPT ![p].log = log_file_path, ![p].handler = file_handler]
             /\ handlers' = IF opened THEN handlers \cup {file_handler} ELSE handlers
    /\ pc' = [pc EXCEPT ![p] = IF CfgOf(p).callbacks THEN "pf_log_callback" ELSE "pf_paths"]
    /\ UNCHANGED <<scoreboard, scoreboard_lock, fs, pfFrame>>

\* mutant: the closures read a key shared by all jobs, the one made last
scoreboard_key_of_Shared(p) ==
    LET keyed == {j \in Jobs : j_key[j] # NoKey}
    IN  IF keyed = {} THEN NoKey
        ELSE j_key[CHOOSE j \in keyed : \A i \in keyed : i <= j]

\* scoreboard_key as the closures capture_log_path and capture_output_pdf of job
\* p see it: the local of the run_translation call that made them
scoreboard_key_of(p) == j_key[p]

\* capture_log_path: with scoreboard_lock:
CB_Log_Acquire(p) ==
    /\ pc[p] = "pf_log_callback"
    /\ LockFree(scoreboard_lock)
    /\ scoreboard_lock' = p
    /\ pc' = [pc EXCEPT ![p] = "pf_log_callback_locked"]
    /\ UNCHANGED <<scoreboard, fs, handlers, pf, pfFrame>>

\* mutant: the log callback fills in the output reference as well
capture_log_path_SetsOutput(board, scoreboard_key, path) ==
    IF scoreboard_key \in DOMAIN board
    THEN [board EXCEPT ![scoreboard_key].log_file = path,
                       ![scoreboard_key].output_file = path]
    ELSE board

\* the body of capture_log_path under the lock: entry = scoreboard.get(key), and
\* entry.log_file = path if entry is not None
capture_log_path(board, scoreboard_key, path) ==
    IF scoreboard_key \in DOMAIN board
    THEN [board EXCEPT ![scoreboard_key].log_file = path]
    ELSE board

\* the body of capture_log_path, which writes to web_logger inside the with block
\* when the entry exists; the lock is released
CB_Log_Update(p) ==
    /\ pc[p] = "pf_log_callback_locked"
    /\ scoreboard' = capture_log_path(scoreboard, scoreboard_key_of(p), pf[p].log)
    /\ lock_io' = IF scoreboard_key_of(p) \in DOMAIN scoreboard
                  THEN lock_io \cup {<<"capture_log_path", "web_logger.info">>}
                  ELSE lock_io
    /\ scoreboard_lock' = NoHolder
    /\ pc' = [pc EXCEPT ![p] = "pf_paths"]
    /\ UNCHANGED <<fs, handlers, pf, pfFrameIo>>

\* file_paths = generate_file_path_vars(file_path, cfg); None returns False, and
\* an exception of generate_file_path_vars propagates (the call is outside the try)
PF_Paths(p) ==
    /\ pc[p] = "pf_paths"
    /\ \E r \in generate_file_path_vars(pf[p].arg, CfgOf(p), fs, clock) :
         /\ fs' = r.fs
         /\ IF r.paths = NoPaths
            THEN Leave(p, IF r.exc # "none" THEN r.exc ELSE "False", pf[p])
            ELSE /\ pf' = [pf EXCEPT ![p] = Stage([pf[p] EXCEPT !.paths = r.paths,
                                                               !.result = FALSE], "paths")]
                 /\ pc' = [pc EXCEPT ![p] = "pf_translate"]
    /\ UNCHANGED <<scoreboard, scoreboard_lock, handlers, pfFrame>>

\* lines 965-981: the input is looked for, the client opened, the document sent
PF_Translate(p) ==
    /\ pc[p] = "pf_translate"
    /\ IF pf[p].paths.input \notin fs
       THEN Leave(p, "False", pf[p]) /\ fs' = fs
       ELSE \E conn \in ConnectOutcomes :
              LET connected == [pf[p] EXCEPT !.conn = conn]
              IN  IF conn # "ok"
                  THEN /\ Leave(p, IF conn \in CaughtByProcessFile THEN "False" ELSE conn,
                                connected)
                       /\ fs' = fs
                  ELSE \E s \in send_document_to_server(pf[p].paths.input,
                                                        pf[p].paths.tmp, fs) :
                         LET sent == Stage([connected EXCEPT !.send = s.send,
                                                             !.result = s.result],
                                           "translate")
                         IN  /\ fs' = s.fs
                             /\ IF s.exc # "none"
                                THEN Leave(p, s.exc, sent)
                                ELSE /\ pf' = [pf EXCEPT ![p] = sent]
                                     /\ pc' = [pc EXCEPT ![p] = "pf_merge"]
    /\ UNCHANGED <<scoreboard, scoreboard_lock, handlers, pfFrame>>

\* lines 984-988: the merge, when the translated document exists
PF_Merge(p) ==
    /\ pc[p] = "pf_merge"
    /\ IF pf[p].paths.tmp \in fs
       THEN \E r \in append_pdfs(pf[p].paths.input, pf[p].paths.tmp,
                                 pf[p].paths.output, fs) :
              /\ fs' = r.fs
              /\ pf' = [pf EXCEPT ![p] = Stage([pf[p] EXCEPT !.result = r.result], "merge")]
       ELSE /\ fs' = fs
            /\ pf' = [pf EXCEPT ![p].result = FALSE]
    /\ pc' = [pc EXCEPT ![p] = "pf_cleanup"]
    /\ UNCHANGED <<scoreboard, scoreboard_lock, handlers, pfFrame>>

\* mutant: the cleanup never runs
CleanupDue_Never(p) == FALSE

\* if output_file_path.exists():
CleanupDue(p) == pf[p].paths.output \in fs

\* lines 1004-1009: the deletions
PF_Cleanup(p) ==
    /\ pc[p] = "pf_cleanup"
    /\ IF CleanupDue(p)
       THEN \E d \in CleanupDeletions(pf[p].arg, pf[p].paths, fs) :
              /\ fs' = d.fs
              /\ pf' = [pf EXCEPT ![p] = Stage([pf[p] EXCEPT !.deleted = d.deleted],
                                               "cleanup")]
              /\ pc' = [pc EXCEPT ![p] = IF CfgOf(p).callbacks THEN "pf_done_callback"
                                         ELSE "pf_finish"]
       ELSE /\ pc' = [pc EXCEPT ![p] = "pf_finish"]
            /\ UNCHANGED <<fs, pf>>
    /\ UNCHANGED <<scoreboard, scoreboard_lock, handlers, pfFrame>>

\* capture_output_pdf: with scoreboard_lock:
CB_Done_Acquire(p) ==
    /\ pc[p] = "pf_done_callback"
    /\ LockFree(scoreboard_lock)
    /\ scoreboard_lock' = p
    /\ pc' = [pc EXCEPT ![p] = "pf_done_callback_locked"]
    /\ UNCHANGED <<scoreboard, fs, handlers, pf, pfFrame>>

\* mutant: an entry is made for a key the scoreboard does not have
capture_output_pdf_Inserting(board, scoreboard_key, path) ==
    IF scoreboard_key \in DOMAIN board
    THEN [board EXCEPT ![scoreboard_key].output_file = path]
    ELSE [k \in DOMAIN board \cup {scoreboard_key} |->
            IF k = scoreboard_key
            THEN [NewEntry(k, NoPath, NoHolder) EXCEPT !.output_file = path]
            ELSE board[k]]

\* the body of capture_output_pdf under the lock: entry = scoreboard.get(key), and
\* entry.output_file = path if entry is not None
capture_output_pdf(board, scoreboard_key, path) ==
    IF scoreboard_key \in DOMAIN board
    THEN [board EXCEPT ![scoreboard_key].output_file = path]
    ELSE board

\* the body of capture_output_pdf; the lock is released (the line for web_logger
\* is written after the with block)
CB_Done_Update(p) ==
    /\ pc[p] = "pf_done_callback_locked"
    /\ scoreboard' = capture_output_pdf(scoreboard, scoreboard_key_of(p), pf[p].paths.output)
    /\ scoreboard_lock' = NoHolder
    /\ pf' = [pf EXCEPT ![p] = Stage(pf[p], "callback")]
    /\ pc' = [pc EXCEPT ![p] = "pf_finish"]
    /\ UNCHANGED <<fs, handlers, pfFrame>>

\* whether the apprise package could be imported
APPRISE_AVAILABLE_Values == BOOLEAN

\* close_file_logger(filehandler, log_file): logger.removeHandler(filehandler)
close_file_logger(filehandler, attached) ==
    IF filehandler # NoHandler THEN attached \ {filehandler} ELSE attached

\* what h.apobj.notify(...) does in send_apprise_message: it returns True,
\* False or None, or raises the RuntimeError that send_apprise_message catches; with no
\* BufferedAppriseHandler attached send_apprise_message returns False as well
NotifyOutcomes == {"True", "False", "None", "RuntimeError"}

\* send_apprise_message(title, body, attach): its return value
send_apprise_message(notify_outcome) == notify_outcome = "True"

\* mutant: the job succeeded only if the notification was sent
ReturnValue_NeedsNotification(result, notified) == result /\ notified

\* return result (line 1030): the value of send_apprise_message is not used
ReturnValue(result, notified) == result

\* lines 1016-1030: send_apprise_message when the output exists, then the handler
\* is removed and result returned
PF_Finish(p) ==
    /\ pc[p] = "pf_finish"
    /\ handlers' = close_file_logger(pf[p].handler, handlers)
    /\ \E available \in APPRISE_AVAILABLE_Values, n \in NotifyOutcomes :
         LET notifies == pf[p].paths.output \in fs /\ available
             notified == IF notifies THEN send_apprise_message(n) ELSE TRUE
         IN  Leave(p, IF ReturnValue(pf[p].result, notified) THEN "True" ELSE "False",
                   IF notifies THEN Stage([pf[p] EXCEPT !.notify = n], "notify")
                   ELSE pf[p])
    /\ UNCHANGED <<scoreboard, scoreboard_lock, fs, pfFrame>>

process_file(p) ==
    \/ PF_Start(p)
    \/ PF_Paths(p)
    \/ PF_Translate(p)
    \/ PF_Merge(p)
    \/ PF_Cleanup(p)
    \/ PF_Finish(p)

callbacks(p) ==
    \/ CB_Log_Acquire(p)
    \/ CB_Log_Update(p)
    \/ CB_Done_Acquire(p)
    \/ CB_Done_Update(p)

(***************************************************************************)
(* monitor_directory(cfg, stop_monitoring) (autotranslate.py).             *)
(***************************************************************************)
\* cfg.input_dir.iterdir(): the regular files of the directory, its
\* sub-directories and its other entries
Listing(files, others) ==
    {f \in files : Dir(f) = "input"}
        \cup {<<"input", n>> : n \in SubDirNames \cup others}

is_dir(entry) == Name(entry) \in SubDirNames

\* lines 1434-1438: not a directory, not hidden, suffix .pdf in any case
Eligible(entry) ==
    /\ ~is_dir(entry)
    /\ Head(Name(entry)) # "."
    /\ Lower(Suffix(Name(entry))) = <<".", "p", "d", "f">>

\* time.sleep(5) of the quota handler
SettleSeconds == 5

\* what pendulum.now("UTC") can return when the quota handler asks
QuotaNows == {Midnight(BaseYear, 1, 20), Midnight(BaseYear, 4, 20)}

\* what a monitor action never changes
monFrame == <<renVars, pathVars, srvVars, cfg_lock, lock_io, scoreboard, scoreboard_lock, keyLocals, j_cfg, cfg, fs, handlers,
              stop_supplied, stop_monitoring, webFlags>>

\* mutant: the while loop does not look at the stop event
LoopCondition_AlwaysTrue(supplied, is_set) == TRUE

\* stop_monitoring is None or not stop_monitoring.is_set()
LoopCondition(supplied, is_set) == ~supplied \/ ~is_set

\* while stop_monitoring is None or not stop_monitoring.is_set():
\*     for file_path in cfg.input_dir.iterdir():
M_Top ==
    /\ pc[Monitor] = "m_top"
    /\ IF ~LoopCondition(stop_supplied, stop_monitoring)
       THEN /\ pc' = [pc EXCEPT ![Monitor] = "m_exit"]
            /\ UNCHANGED <<m_listing, m_slept>>
       ELSE /\ pc' = [pc EXCEPT ![Monitor] = "m_iter"]
            /\ m_listing' = Listing(fs, links)
            /\ m_slept' = <<>>
    /\ UNCHANGED <<clock, pf, m_wait, m_exc, monFrame>>

\* the for loop advances: the entries that are directories, hidden or not PDF are
\* passed over (continue), the next eligible one is handed to process_file; the
\* loop ends when only entries to pass over are left
M_Iter ==
    /\ pc[Monitor] = "m_iter"
    /\ IF \A entry \in m_listing : ~Eligible(entry)
       THEN /\ pc' = [pc EXCEPT ![Monitor] = "m_poll"]
            /\ m_listing' = {}
            /\ pf' = pf
       ELSE \E file_path \in {entry \in m_listing : Eligible(entry)} :
              /\ m_listing' = m_listing \ {file_path}
              /\ pf' = [pf EXCEPT ![Monitor] = [PfIdle EXCEPT !.arg = file_path]]
              /\ pc' = [pc EXCEPT ![Monitor] = "pf_start"]
    /\ UNCHANGED <<clock, m_wait, m_slept, m_exc, monFrame>>

\* try: process_file(file_path, cfg) / except QuotaExceededException: where the
\* monitor goes on after process_file was left with `outcome`
AfterProcessFile(outcome) ==
    IF outcome \in {"True", "False"} THEN "m_iter"
    ELSE IF outcome = "QuotaExceededException" THEN "m_quota"
    ELSE "m_raised"

\* process_file has returned or raised
M_After ==
    /\ pc[Monitor] = "pf_done"
    /\ pc' = [pc EXCEPT ![Monitor] = AfterProcessFile(pf[Monitor].outcome)]
    /\ m_exc' = IF AfterProcessFile(pf[Monitor].outcome) = "m_raised"
                THEN <<"process_file", pf[Monitor].outcome>> ELSE m_exc
    /\ pf' = [pf EXCEPT ![Monitor] = PfIdle]
    /\ UNCHANGED <<clock, m_listing, m_wait, m_slept, monFrame>>

\* wait_seconds = num_seconds_till_renewal(cfg.usage_renewal_day); the sleep of
\* wait_seconds (lines 1449-1464)
M_QuotaSleep ==
    /\ pc[Monitor] = "m_quota"
    /\ \E now \in QuotaNows :
         LET r == num_seconds_till_renewal(cfg.usage_renewal_day, DEFAULT_DAYS, now)
         IN  IF r.exc # "none"
             THEN /\ m_exc' = <<"num_seconds_till_renewal", r.exc>>
                  /\ pc' = [pc EXCEPT ![Monitor] = "m_raised"]
                  /\ UNCHANGED <<m_wait, m_slept>>
             ELSE /\ m_wait' = r.value
                  /\ m_slept' = Append(m_slept, r.value)
                  /\ pc' = [pc EXCEPT ![Monitor] = "m_settle"]
                  /\ m_exc' = m_exc
    /\ UNCHANGED <<clock, pf, m_listing, monFrame>>

\* break (line 1467): the for loop is left
AfterSettle == "m_poll"

\* time.sleep(5); break.  Nothing reads the clock between the sleeps of the quota
\* handler and the poll sleep the break leads to: the clock is advanced there
M_Settle ==
    /\ pc[Monitor] = "m_settle"
    /\ clock' = clock
    /\ m_slept' = Append(m_slept, SettleSeconds)
    /\ pc' = [pc EXCEPT ![Monitor] = AfterSettle]
    /\ UNCHANGED <<pf, m_listing, m_wait, m_exc, monFrame>>

\* check_period_sec = int(60 * cfg.check_period_min)
check_period_sec(c) == 60 * c.check_period_min

\* lines 1471-1480: the sleep of the poll interval, then the while test again
M_Poll ==
    /\ pc[Monitor] = "m_poll"
    /\ clock < MaxClock
    /\ clock' = clock + 1
    /\ m_slept' = Append(m_slept, check_period_sec(cfg))
    /\ pc' = [pc EXCEPT ![Monitor] = "m_top"]
    /\ UNCHANGED <<pf, m_listing, m_wait, m_exc, monFrame>>

monitor_directory ==
    \/ M_Top
    \/ M_Iter
    \/ M_After
    \/ M_QuotaSleep
    \/ M_Settle
    \/ M_Poll

\* a document is put into the input directory.  iterdir() is a snapshot, so a
\* document that arrives during a pass is seen by the next enumeration: arrivals
\* are taken when the monitor is about to enumerate
AddFile ==
    /\ pc[Monitor] = "m_top"
    /\ \E n \in DocumentNames :
         /\ <<"input", n>> \notin fs
         /\ fs' = fs \cup {<<"input", n>>}
    /\ UNCHANGED <<renVars, pathVars, srvVars, cfg_lock, lock_io, clock, scoreboard, scoreboard_lock, pc, keyLocals, j_cfg, cfg,
                   handlers, pf, monVars, webFlags>>

\* stop_monitoring.set()
SetStop ==
    /\ stop_supplied
    /\ ~stop_monitoring
    /\ stop_monitoring' = TRUE
    /\ UNCHANGED <<renVars, pathVars, srvVars, cfg_lock, lock_io, clock, scoreboard, scoreboard_lock, pc, keyLocals, j_cfg, cfg,
                   fs, handlers, pf, m_listing, m_wait, m_slept, m_exc, stop_supplied,
                   webFlags>>

(***************************************************************************)
(* run_translation and run_process_file (autotranslate_web_server.py).     *)
(***************************************************************************)
webFrame == <<renVars, pathVars, srvVars, cfg_lock, lock_io, clock, scoreboard, scoreboard_lock, keyLocals, cfg, handlers,
              monVars>>

\* the same without cfg_lock
webFrameCfg == <<renVars, pathVars, srvVars, lock_io, clock, scoreboard, scoreboard_lock, keyLocals, cfg, handlers,
                 monVars>>

\* mutant: leaving the with block keeps the lock
Released_StillHeld(holder) == holder

\* the end of a `with lock:` block
Released(holder) == NoHolder

\* ensure_initialized (before_request) lets the request through
Initialized == cfg_is_inited

\* uploaded.save(input_path)
R_Upload(j) ==
    /\ pc[j] = "r_upload"
    /\ Initialized
    /\ fs' = fs \cup {<<"tmp", j_file[j]>>}
    /\ pc' = [pc EXCEPT ![j] = "r_cfg"]
    /\ UNCHANGED <<pf, j_cfg, webFlags, webFrame>>

\* with cfg_lock:
R_CfgAcquire(j) ==
    /\ pc[j] = "r_cfg"
    /\ LockFree(cfg_lock)
    /\ cfg_lock' = j
    /\ pc' = [pc EXCEPT ![j] = "r_clone"]
    /\ UNCHANGED <<fs, pf, j_cfg, webFlags, webFrameCfg>>

\* new_cfg = Config(...), the lock is released, and the form's values are set
R_Clone(j) ==
    /\ pc[j] = "r_clone"
    /\ \E new_cfg \in JobCfgs(cfg) : j_cfg' = [j_cfg EXCEPT ![j] = new_cfg]
    /\ cfg_lock' = Released(cfg_lock)
    /\ pc' = [pc EXCEPT ![j] = "k_start"]
    /\ UNCHANGED <<fs, pf, webFlags, webFrameCfg>>

\* threading.Thread(target=run_process_file, args=(input_path, new_cfg)).start()
R_Spawn(j) ==
    /\ pc[j] = "k_done"
    /\ pf' = [pf EXCEPT ![j] = [PfIdle EXCEPT !.arg = <<"tmp", j_file[j]>>]]
    /\ pc' = [pc EXCEPT ![j] = "pf_start"]
    /\ UNCHANGED <<fs, j_cfg, webFlags, webFrame>>

\* run_process_file after process_file: the except branch sets the flags
W_After(j) ==
    /\ pc[j] = "pf_done"
    /\ is_quota_exceeded' = (is_quota_exceeded
                               \/ pf[j].outcome = "QuotaExceededException")
    /\ is_fatal_error' = (is_fatal_error
                            \/ pf[j].outcome \notin {"True", "False", "QuotaExceededException"})
    /\ pf' = [pf EXCEPT ![j] = PfIdle]
    /\ pc' = [pc EXCEPT ![j] = "w_exit"]
    /\ UNCHANGED <<fs, j_cfg, webFrame>>

run_translation(j) ==
    \/ R_Upload(j)
    \/ R_CfgAcquire(j)
    \/ R_Clone(j)
    \/ R_Spawn(j)
    \/ W_After(j)

(***************************************************************************)
(* The request handlers index, check_output, report_scoreboard and the     *)
(* file endpoints, run by one handler thread, and run_directory_monitor.   *)
(***************************************************************************)
\* the identities under which the handler thread and the monitor thread hold a
\* lock (the jobs hold one under their own number)
Handler == NumJobs + 2

MonitorThread == NumJobs + 3

\* page: which page of index the answer is, or the refusal of ensure_initialized
NoResponse ==
    [endpoint |-> "none", status |-> 0, ready |-> FALSE, filename |-> NoPath,
     page |-> "none"]

\* the request handler thread between two requests
RqIdle ==
    [pc |-> "idle", endpoint |-> "none", job_id |-> NoKey, read |-> NoPath,
     response |-> NoResponse]

\* request.args.get("job_id"): absent, or a key, which the scoreboard holds from
\* the start, from the upload on, or never
JobIds == {NoKey} \cup {KeyOf(0, n) : n \in 0 .. NumWebJobs}

\* the endpoints that take cfg_lock only
FileEndpoints == {"serve_output", "download", "file_log"}

\* the requests: the endpoint, its first step and its job_id
Requests ==
    {<<"check_output", "c_acquire", id>> : id \in JobIds}
    \cup {<<"index", "i_flags", id>> : id \in JobIds}
    \cup {<<"report_scoreboard", "s_acquire", NoKey>>}
    \cup {<<e, "f_acquire", NoKey>> : e \in FileEndpoints}

\* what no step of the handler thread changes
hFrame == <<renVars, pathVars, cfg_is_inited, monitor_thread_lock, clock, scoreboard, pc, keyLocals, j_cfg,
            cfg, fs, handlers, pf, monVars, webFlags>>

Answer(endpoint, status) == [NoResponse EXCEPT !.endpoint = endpoint, !.status = status]

PageAnswer(status, page) == [Answer("index", status) EXCEPT !.page = page]

\* a request arrives; ensure_initialized lets file_log through in any case
H_Request ==
    /\ rq.pc = "idle"
    /\ \E r \in Requests :
         /\ Initialized \/ r[1] = "file_log"
         /\ rq' = [RqIdle EXCEPT !.endpoint = r[1], !.pc = r[2], !.job_id = r[3]]
    /\ UNCHANGED <<ready_seen, cfg_lock, scoreboard_lock, lock_io, hFrame>>

\* a request arrives for another endpoint while (not cfg_is_inited) or (not cfg):
\* ensure_initialized answers "Autotranslate service not initialized", 500 and the
\* view function is not called
H_Reject ==
    /\ rq.pc = "idle"
    /\ ~Initialized
    /\ \E r \in Requests :
         /\ r[1] # "file_log"
         /\ rq' = [RqIdle EXCEPT !.endpoint = r[1], !.job_id = r[3],
                                 !.response = [Answer(r[1], 500) EXCEPT
                                                 !.page = "not_initialized"]]
    /\ UNCHANGED <<ready_seen, cfg_lock, scoreboard_lock, lock_io, hFrame>>

\* check_output: with scoreboard_lock:
C_Acquire ==
    /\ rq.pc = "c_acquire"
    /\ LockFree(scoreboard_lock)
    /\ scoreboard_lock' = Handler
    /\ rq' = [rq EXCEPT !.pc = "c_locked"]
    /\ UNCHANGED <<ready_seen, cfg_lock, lock_io, hFrame>>

\* output_file_path = entry.output_file if job_id is a key; the lock is released
C_Read ==
    /\ rq.pc = "c_locked"
    /\ rq' = [rq EXCEPT !.pc = "c_return",
                        !.read = IF rq.job_id # NoKey /\ rq.job_id \in DOMAIN scoreboard
                                 THEN scoreboard[rq.job_id].output_file
                                 ELSE NoPath]
    /\ scoreboard_lock' = Released(scoreboard_lock)
    /\ UNCHANGED <<ready_seen, cfg_lock, lock_io, hFrame>>

\* {"ready": True, "filename": output_file_path.name} or {"ready": False, "filename": None}
check_output_response(output_file_path) ==
    IF output_file_path # NoPath
    THEN [Answer("check_output", 200) EXCEPT !.ready = TRUE,
                                             !.filename = Name(output_file_path)]
    ELSE Answer("check_output", 200)

\* web_logger.info(...) and the return
C_Return ==
    /\ rq.pc = "c_return"
    /\ rq' = [rq EXCEPT !.pc = "idle", !.response = check_output_response(rq.read)]
    /\ ready_seen' = IF check_output_response(rq.read).ready
                     THEN ready_seen \cup {rq.job_id} ELSE ready_seen
    /\ UNCHANGED <<cfg_lock, scoreboard_lock, lock_io, hFrame>>

check_output ==
    \/ C_Acquire
    \/ C_Read
    \/ C_Return

\* renewal_secs = autotranslate.num_seconds_till_renewal(cfg.usage_renewal_day if
\* cfg else 0), then render_quota_exceeded_page(renewal_secs, ...); an exception of
\* the call leaves index and the server answers 500
QuotaPage(renewal_date, now) ==
    IF num_seconds_till_renewal(renewal_date, DEFAULT_DAYS, now).exc = "none"
    THEN PageAnswer(200, "quota")
    ELSE PageAnswer(500, "error")

\* index: the crash page, the quota page or the main page
I_Flags ==
    /\ rq.pc = "i_flags"
    /\ \E now \in QuotaNows :
         rq' = IF is_fatal_error THEN [rq EXCEPT !.pc = "i_fatal_acquire"]
               ELSE IF is_quota_exceeded
                    THEN [rq EXCEPT !.pc = "idle",
                                    !.response = QuotaPage(cfg.usage_renewal_day, now)]
                    ELSE [rq EXCEPT !.pc = "i_cfg_acquire"]
    /\ UNCHANGED <<ready_seen, cfg_lock, scoreboard_lock, lock_io, hFrame>>

\* with cfg_lock: of the crash page and of the main page
I_CfgAcquire ==
    /\ rq.pc \in {"i_fatal_acquire", "i_cfg_acquire"}
    /\ LockFree(cfg_lock)
    /\ cfg_lock' = Handler
    /\ rq' = [rq EXCEPT !.pc = IF rq.pc = "i_fatal_acquire" THEN "i_fatal_locked"
                                ELSE "i_cfg_locked"]
    /\ UNCHANGED <<ready_seen, scoreboard_lock, lock_io, hFrame>>

\* the crash page is returned with status 500
I_FatalRead ==
    /\ rq.pc = "i_fatal_locked"
    /\ cfg_lock' = Released(cfg_lock)
    /\ rq' = [rq EXCEPT !.pc = "idle", !.response = PageAnswer(500, "crash")]
    /\ UNCHANGED <<ready_seen, scoreboard_lock, lock_io, hFrame>>

\* global_log_filename is read and the lock is released
I_CfgRead ==
    /\ rq.pc = "i_cfg_locked"
    /\ cfg_lock' = Released(cfg_lock)
    /\ rq' = [rq EXCEPT !.pc = "i_board_acquire"]
    /\ UNCHANGED <<ready_seen, scoreboard_lock, lock_io, hFrame>>

\* with scoreboard_lock:
I_BoardAcquire ==
    /\ rq.pc = "i_board_acquire"
    /\ LockFree(scoreboard_lock)
    /\ scoreboard_lock' = Handler
    /\ rq' = [rq EXCEPT !.pc = "i_board_locked"]
    /\ UNCHANGED <<ready_seen, cfg_lock, lock_io, hFrame>>

\* jobs_log_filename is read and the lock is released
I_BoardRead ==
    /\ rq.pc = "i_board_locked"
    /\ rq' = [rq EXCEPT !.pc = "i_return",
                        !.read = IF rq.job_id # NoKey /\ rq.job_id \in DOMAIN scoreboard
                                 THEN scoreboard[rq.job_id].log_file
                                 ELSE NoPath]
    /\ scoreboard_lock' = Released(scoreboard_lock)
    /\ UNCHANGED <<ready_seen, cfg_lock, lock_io, hFrame>>

\* web_logger.info(...) and render_template(...)
I_Return ==
    /\ rq.pc = "i_return"
    /\ rq' = [rq EXCEPT !.pc = "idle",
                        !.response = [PageAnswer(200, "main") EXCEPT
                                        !.filename = IF rq.read # NoPath THEN Name(rq.read)
                                                     ELSE NoPath]]
    /\ UNCHANGED <<ready_seen, cfg_lock, scoreboard_lock, lock_io, hFrame>>

index ==
    \/ I_Flags
    \/ I_CfgAcquire
    \/ I_FatalRead
    \/ I_CfgRead
    \/ I_BoardAcquire
    \/ I_BoardRead
    \/ I_Return

\* report_scoreboard: with scoreboard_lock:
S_Acquire ==
    /\ rq.pc = "s_acquire"
    /\ LockFree(scoreboard_lock)
    /\ scoreboard_lock' = Handler
    /\ rq' = [rq EXCEPT !.pc = "s_locked"]
    /\ UNCHANGED <<ready_seen, cfg_lock, lock_io, hFrame>>

\* the entries whose row calls Path.exists(): entry.log_file.exists() or
\* entry.output_file.exists() is evaluated when the path is set
RowsTestingFiles(board) ==
    {k \in DOMAIN board : board[k].log_file # NoPath \/ board[k].output_file # NoPath}

\* the rows are built inside the with block, then the lock is released and the
\* page returned
S_Read ==
    /\ rq.pc = "s_locked"
    /\ lock_io' = IF RowsTestingFiles(scoreboard) # {}
                  THEN lock_io \cup {<<"report_scoreboard", "Path.exists">>}
                  ELSE lock_io
    /\ scoreboard_lock' = Released(scoreboard_lock)
    /\ rq' = [rq EXCEPT !.pc = "idle", !.response = Answer("report_scoreboard", 200)]
    /\ UNCHANGED <<ready_seen, cfg_lock, hFrame>>

report_scoreboard ==
    \/ S_Acquire
    \/ S_Read

\* serve_output, download, file_log: with cfg_lock:
F_Acquire ==
    /\ rq.pc = "f_acquire"
    /\ LockFree(cfg_lock)
    /\ cfg_lock' = Handler
    /\ rq' = [rq EXCEPT !.pc = "f_locked"]
    /\ UNCHANGED <<ready_seen, scoreboard_lock, lock_io, hFrame>>

\* the directory is read from cfg and the lock released; the file is then looked
\* for and sent, or the request aborted with 404
F_Read ==
    /\ rq.pc = "f_locked"
    /\ cfg_lock' = Released(cfg_lock)
    /\ \E status \in {200, 404} :
         rq' = [rq EXCEPT !.pc = "idle", !.response = Answer(rq.endpoint, status)]
    /\ UNCHANGED <<ready_seen, scoreboard_lock, lock_io, hFrame>>

file_endpoints ==
    \/ F_Acquire
    \/ F_Read

handler ==
    \/ H_Request
    \/ check_output
    \/ index
    \/ report_scoreboard
    \/ file_endpoints

\* what no step of run_directory_monitor changes
dFrame == <<renVars, pathVars, monitor_thread_lock, rq, ready_seen, lock_io, clock, scoreboard,
            scoreboard_lock, keyLocals, j_cfg, cfg, fs, handlers, pf, monVars,
            is_quota_exceeded>>

\* run_directory_monitor: with cfg_lock:
D_Acquire ==
    /\ pc[Monitor] = "d_start"
    /\ LockFree(cfg_lock)
    /\ cfg_lock' = MonitorThread
    /\ pc' = [pc EXCEPT ![Monitor] = "d_locked"]
    /\ UNCHANGED <<cfg_is_inited, is_fatal_error, dFrame>>

\* cfg = init_autotranslate(); cfg_is_inited = True, or init_autotranslate raises;
\* the with block is left either way, and the exception goes to the except clauses
D_Init ==
    /\ pc[Monitor] = "d_locked"
    /\ cfg_lock' = Released(cfg_lock)
    /\ \E configured \in BOOLEAN :
         /\ cfg_is_inited' = configured
         /\ pc' = [pc EXCEPT ![Monitor] = IF configured THEN "d_monitoring" ELSE "d_except"]
    /\ UNCHANGED <<is_fatal_error, dFrame>>

\* autotranslate.monitor_directory(cfg, stop_monitoring) is entered
D_Call ==
    /\ pc[Monitor] = "d_monitoring"
    /\ pc' = [pc EXCEPT ![Monitor] = "m_top"]
    /\ UNCHANGED <<cfg_lock, cfg_is_inited, is_fatal_error, dFrame>>

\* mutant: the except branch starts run_directory_monitor again
AfterCrash_Restart == "d_start"

\* the except branches are the end of run_directory_monitor: the thread ends
AfterCrash == "d_failed"

\* init_autotranslate or monitor_directory(cfg, stop_monitoring) raised: the
\* except branches (lines 497-511).  "d_monitoring" is monitor_directory seen from
\* outside, "m_raised" the exception leaving its loop
D_Crash ==
    /\ pc[Monitor] \in {"d_monitoring", "d_except", "m_raised"}
    /\ cfg_is_inited' = FALSE
    /\ is_fatal_error' = TRUE
    /\ pc' = [pc EXCEPT ![Monitor] = AfterCrash]
    /\ UNCHANGED <<cfg_lock, dFrame>>

run_directory_monitor ==
    \/ D_Acquire
    \/ D_Init
    \/ D_Crash

(***************************************************************************)
(* autotranslate_web_server.graceful_exit.  Its callers are the atexit     *)
(* hook, the handler of SIGINT and SIGTERM and the entry point, all on the *)
(* main thread: a signal handler runs between two bytecodes of whatever    *)
(* the main thread is executing, a call of graceful_exit included, so the  *)
(* calls nest, and the interrupted call goes on when the handler returns.  *)
(***************************************************************************)
ExitCalls == 1 .. NumExitCalls

\* the positions of a call that is under way
GeActive == {"g_test", "g_set", "g_stop", "g_join", "g_flush", "g_exit"}

\* the positions at or after stop_monitoring.set(): the body after the guard
GeBody == {"g_stop", "g_join", "g_flush", "g_exit", "g_done"}

GeIdle == [as_main |-> TRUE, at |-> [c \in ExitCalls |-> "g_none"]]

ExitIdle ==
    /\ exit_done = FALSE
    /\ ge = GeIdle
    /\ main_pc = "main_none"

\* the call that the main thread is executing: the last one entered that is under way
Innermost(c) ==
    /\ ge.at[c] \in GeActive
    /\ \A d \in ExitCalls : d > c => ge.at[d] \notin GeActive

geFrame == <<renVars, clock, scoreboard, scoreboard_lock, pc, keyLocals, j_cfg, cfg,
             fs, handlers, pf, m_listing, m_wait, m_slept, m_exc, stop_supplied,
             webFlags, srvVars, cfg_lock, lock_io, gp, cf, vd, links>>

\* the positions of main() at which the main thread is executing it
MainRunning == {"main_start", "main_wait", "main_sleep", "main_ready", "main_serving"}

GeAt(c, position) == [ge EXCEPT !.at[c] = position]

\* graceful_exit is called: by the atexit hook or the entry point when no call is
\* under way, by the signal handler at any point
G_Call(c) ==
    /\ ge.at[c] = "g_none"
    /\ \A d \in ExitCalls : d < c => ge.at[d] # "g_none"
    /\ ge' = GeAt(c, "g_test")
    /\ UNCHANGED <<exit_done, stop_monitoring, main_pc, geFrame>>

\* if getattr(graceful_exit, "exit_done", False): return
G_Test(c) ==
    /\ Innermost(c)
    /\ ge.at[c] = "g_test"
    /\ ge' = GeAt(c, IF exit_done THEN "g_returned" ELSE "g_set")
    /\ UNCHANGED <<exit_done, stop_monitoring, main_pc, geFrame>>

\* graceful_exit.exit_done = True
G_Set(c) ==
    /\ Innermost(c)
    /\ ge.at[c] = "g_set"
    /\ exit_done' = TRUE
    /\ ge' = GeAt(c, "g_stop")
    /\ UNCHANGED <<stop_monitoring, main_pc, geFrame>>

\* stop_monitoring.set()
G_Stop(c) ==
    /\ Innermost(c)
    /\ ge.at[c] = "g_stop"
    /\ stop_monitoring' = TRUE
    /\ ge' = GeAt(c, "g_join")
    /\ UNCHANGED <<exit_done, main_pc, geFrame>>

\* if monitor_thread: monitor_thread.join(timeout=5.0)
G_Join(c) ==
    /\ Innermost(c)
    /\ ge.at[c] = "g_join"
    /\ ge' = GeAt(c, "g_flush")
    /\ UNCHANGED <<exit_done, stop_monitoring, main_pc, geFrame>>

\* the handlers of web_logger are flushed, closed and removed
G_Flush(c) ==
    /\ Innermost(c)
    /\ ge.at[c] = "g_flush"
    /\ ge' = GeAt(c, "g_exit")
    /\ UNCHANGED <<exit_done, stop_monitoring, main_pc, geFrame>>

\* sys.exit(exit_code) when the module is the program: SystemExit, which no except
\* clause on its way catches, ends the calls it interrupted; otherwise the call
\* returns to its caller
G_Exit(c) ==
    /\ Innermost(c)
    /\ ge.at[c] = "g_exit"
    /\ ge' = [ge EXCEPT !.at = [d \in ExitCalls |->
                 IF d = c THEN "g_done"
                 ELSE IF ge.as_main /\ ge.at[d] \in GeActive THEN "g_unwound"
                 ELSE ge.at[d]]]
    /\ main_pc' = IF ge.as_main /\ main_pc \in MainRunning THEN "main_exited" ELSE main_pc
    /\ UNCHANGED <<exit_done, stop_monitoring, geFrame>>

\* a call is made
GeCalls == \E c \in ExitCalls : G_Call(c)

\* the main thread goes on with the call it is in
GeSteps ==
    \E c \in ExitCalls :
        \/ G_Test(c)
        \/ G_Set(c)
        \/ G_Stop(c)
        \/ G_Join(c)
        \/ G_Flush(c)
        \/ G_Exit(c)

graceful_exit ==
    \/ GeCalls
    \/ GeSteps

(***************************************************************************)
(* autotranslate_web_server.main: the monitor thread is started and the    *)
(* main thread waits for cfg_is_inited.  The main thread executes main()   *)
(* only while it is in no call of graceful_exit.                           *)
(***************************************************************************)
mainFrame == <<renVars, clock, scoreboard, scoreboard_lock, keyLocals, j_cfg, cfg,
               fs, handlers, pf, monVars, webFlags, srvVars, cfg_lock, lock_io,
               gp, cf, vd, links, exit_done, ge>>

InMain == \A c \in ExitCalls : ge.at[c] \notin GeActive

\* monitor_thread = threading.Thread(target=run_directory_monitor, daemon=True)
\* monitor_thread.start()
Main_Start ==
    /\ InMain
    /\ main_pc = "main_start"
    /\ main_pc' = "main_wait"
    /\ pc' = [pc EXCEPT ![Monitor] = "d_start"]
    /\ UNCHANGED mainFrame

\* while not cfg_is_inited:
Main_Test ==
    /\ InMain
    /\ main_pc = "main_wait"
    /\ main_pc' = IF cfg_is_inited THEN "main_ready" ELSE "main_sleep"
    /\ UNCHANGED <<pc, mainFrame>>

\* time.sleep(0.1)
Main_Sleep ==
    /\ InMain
    /\ main_pc = "main_sleep"
    /\ main_pc' = "main_wait"
    /\ UNCHANGED <<pc, mainFrame>>

\* add_web_file_logging(); app.run(host="0.0.0.0", port=5432)
Main_Run ==
    /\ InMain
    /\ main_pc = "main_ready"
    /\ main_pc' = "main_serving"
    /\ UNCHANGED <<pc, mainFrame>>

main ==
    \/ Main_Start
    \/ Main_Test
    \/ Main_Sleep
    \/ Main_Run

(***************************************************************************)
(* Initial values shared by the specifications.                            *)
(***************************************************************************)
\* no request is being handled and no lock is held
LocksIdle ==
    /\ cfg_lock = NoHolder
    /\ monitor_thread_lock = NoHolder
    /\ rq = RqIdle
    /\ ready_seen = {}
    /\ lock_io = {}

\* and no function is being applied on its own
ServerIdle ==
    /\ LocksIdle
    /\ cf = CfIdle
    /\ vd = VdIdle

\* no process has started
WorkersIdle ==
    /\ scoreboard_lock = NoHolder
    /\ j_base = [j \in Jobs |-> 0]
    /\ j_counter = [j \in Jobs |-> 0]
    /\ j_key = [j \in Jobs |-> NoKey]
    /\ j_cfg = [j \in Jobs |-> DefaultCfg]
    /\ handlers = {}
    /\ pf = [p \in Procs |-> PfIdle]
    /\ m_listing = {}
    /\ m_wait = 0
    /\ m_slept = <<>>
    /\ m_exc = <<>>
    /\ stop_monitoring = FALSE
    /\ is_quota_exceeded = FALSE
    /\ is_fatal_error = FALSE

\* no process has started and no call is under way
PipelineIdle ==
    /\ ServerIdle
    /\ gp = [k \in Derivations |-> GpIdle]
    /\ WorkersIdle

StaticFiles == {<<"input", n>> : n \in StaticNames}

(***************************************************************************)
(* Spec: monitor_directory, called without a stop event as main() does,    *)
(* polls the input directory and runs process_file on what it finds, while *)
(* documents arrive.                                                       *)
(***************************************************************************)
Init ==
    /\ links = {}
    /\ ExitIdle
    /\ RenewalIdle
    /\ PipelineIdle
    /\ cfg_is_inited = FALSE
    /\ clock = 0
    /\ cfg \in SharedCfgs
    /\ fs = StaticFiles
    /\ scoreboard = << >>
    /\ stop_supplied = FALSE
    /\ j_file = [j \in Jobs |-> CHOOSE n \in UploadNames : TRUE]
    /\ pc = [p \in Procs |-> IF p = Monitor THEN "m_top" ELSE "unused"]

Next ==
    \/ monitor_directory
    \/ process_file(Monitor)
    \/ AddFile

Spec == Init /\ [][Next]_vars

(***************************************************************************)
(* SpecFile: main() in single file mode: process_file(cfg.source_file, cfg) *)
(* is called once, by the main thread (the process of the monitor).        *)
(***************************************************************************)
\* a name no character of which is safe
UnsafeName == <<"#">>

\* the files --file can name
SourceFiles == {<<"input", n>> : n \in DocumentNames \cup {UnsafeName}}

\* lines 316-332: the exit code after process_file returned or raised
ExitCode(outcome) ==
    IF outcome \in {"True", "False"} THEN "exit_0"
    ELSE IF outcome = "QuotaExceededException" THEN "exit_3" ELSE "exit_2"

\* graceful_exit(...) of single file mode
F_After ==
    /\ pc[Monitor] = "pf_done"
    /\ pc' = [pc EXCEPT ![Monitor] = ExitCode(pf[Monitor].outcome)]
    /\ UNCHANGED <<renVars, pathVars, srvVars, cfg_lock, lock_io, clock, scoreboard,
                   scoreboard_lock, keyLocals, j_cfg, cfg, fs, handlers, pf, monVars,
                   webFlags>>

FileInit ==
    /\ links = {}
    /\ ExitIdle
    /\ RenewalIdle
    /\ ServerIdle
    /\ cfg_is_inited = FALSE
    /\ scoreboard_lock = NoHolder
    /\ j_base = [j \in Jobs |-> 0]
    /\ j_counter = [j \in Jobs |-> 0]
    /\ j_key = [j \in Jobs |-> NoKey]
    /\ j_cfg = [j \in Jobs |-> DefaultCfg]
    /\ handlers = {}
    /\ gp = [k \in Derivations |-> GpIdle]
    /\ m_listing = {}
    /\ m_wait = 0
    /\ m_slept = <<>>
    /\ m_exc = <<>>
    /\ stop_monitoring = FALSE
    /\ is_quota_exceeded = FALSE
    /\ is_fatal_error = FALSE
    /\ clock = 0
    /\ cfg \in SharedCfgs
    /\ scoreboard = << >>
    /\ stop_supplied = FALSE
    /\ j_file = [j \in Jobs |-> CHOOSE n \in UploadNames : TRUE]
    /\ pc = [p \in Procs |-> IF p = Monitor THEN "pf_start" ELSE "unused"]
    /\ \E source_file \in SourceFiles :
         /\ pf = [p \in Procs |-> IF p = Monitor
                                  THEN [PfIdle EXCEPT !.arg = source_file]
                                  ELSE PfIdle]
         /\ \E present \in SUBSET {source_file, <<"output", Name(source_file)>>} :
              fs = StaticFiles \cup present

FileNext ==
    \/ process_file(Monitor)
    \/ F_After

SpecFile == FileInit /\ [][FileNext]_vars

(***************************************************************************)
(* SpecClean: clean_filename applied to every name up to MaxNameLen over   *)
(* CleanChars, then to its own result, and get_clean_input_file applied to *)
(* the file of that name in the input directory.                           *)
(***************************************************************************)
\* everything but the calls of SpecClean and SpecDirs is idle
CallsInit ==
    /\ links = {}
    /\ ExitIdle
    /\ RenewalIdle
    /\ LocksIdle
    /\ WorkersIdle
    /\ gp = [k \in Derivations |-> GpIdle]
    /\ cfg_is_inited = FALSE
    /\ clock = 0
    /\ cfg = DefaultCfg
    /\ scoreboard = << >>
    /\ stop_supplied = FALSE
    /\ j_file = [j \in Jobs |-> CHOOSE n \in UploadNames : TRUE]
    /\ pc = [p \in Procs |-> "unused"]

CleanInit ==
    /\ CallsInit
    /\ vd = VdIdle
    /\ \E name \in CleanNames :
         /\ cf = [CfIdle EXCEPT !.pc = "call", !.name = name]
         /\ fs = StaticFiles \cup {<<"input", name>>}

CleanNext ==
    \/ CF_Clean
    \/ CF_Again
    \/ CF_Copy

SpecClean == CleanInit /\ [][CleanNext]_vars

(***************************************************************************)
(* SpecDirs: validate_directories applied to every combination of states   *)
(* of the four directories, and what main() does with its outcome.         *)
(***************************************************************************)
DirsInit ==
    /\ CallsInit
    /\ cf = CfIdle
    /\ fs = StaticFiles
    /\ \E dirs \in [{DirKeys[i] : i \in 1 .. Len(DirKeys)} -> DirStates] :
         vd = [VdIdle EXCEPT !.pc = "call", !.dirs = dirs, !.before = dirs]

DirsNext ==
    \/ VD_Call
    \/ VD_Main

SpecDirs == DirsInit /\ [][DirsNext]_vars

(***************************************************************************)
(* SpecStop: monitor_directory as the web server and main() call it, with  *)
(* and without a stop event; the event can be set at any moment.           *)
(***************************************************************************)
StopInit ==
    /\ links = {}
    /\ ExitIdle
    /\ RenewalIdle
    /\ PipelineIdle
    /\ cfg_is_inited = FALSE
    /\ clock = 0
    /\ cfg = DefaultCfg
    /\ fs = StaticFiles
    /\ scoreboard = << >>
    /\ stop_supplied \in BOOLEAN
    /\ j_file = [j \in Jobs |-> CHOOSE n \in UploadNames : TRUE]
    /\ pc = [p \in Procs |-> IF p = Monitor THEN "m_top" ELSE "unused"]

StopNext ==
    \/ monitor_directory
    \/ process_file(Monitor)
    \/ AddFile
    \/ SetStop

SpecStop == StopInit /\ [][StopNext]_vars

(***************************************************************************)
(* SpecPass: monitor_directory on an input directory that holds any of the *)
(* documents and may hold an entry that is not a regular file.             *)
(***************************************************************************)
PassInit ==
    /\ links \in SUBSET LinkNames
    /\ ExitIdle
    /\ RenewalIdle
    /\ PipelineIdle
    /\ cfg_is_inited = FALSE
    /\ clock = 0
    /\ cfg = DefaultCfg
    /\ \E present \in SUBSET DocumentNames :
         fs = StaticFiles \cup {<<"input", n>> : n \in present}
    /\ scoreboard = << >>
    /\ stop_supplied = FALSE
    /\ j_file = [j \in Jobs |-> CHOOSE n \in UploadNames : TRUE]
    /\ pc = [p \in Procs |-> IF p = Monitor THEN "m_top" ELSE "unused"]

PassNext ==
    \/ monitor_directory
    \/ process_file(Monitor)

SpecPass == PassInit /\ [][PassNext]_vars

(***************************************************************************)
(* SpecThread: the monitor thread of the web server: run_directory_monitor *)
(* initializes, calls monitor_directory and handles what it raises.        *)
(***************************************************************************)
ThreadInit ==
    /\ links = {}
    /\ ExitIdle
    /\ RenewalIdle
    /\ PipelineIdle
    /\ cfg_is_inited = FALSE
    /\ clock = 0
    /\ cfg \in SharedCfgs
    /\ \E present \in SUBSET DocumentNames :
         fs = StaticFiles \cup {<<"input", n>> : n \in present}
    /\ scoreboard = << >>
    /\ stop_supplied = TRUE
    /\ j_file = [j \in Jobs |-> CHOOSE n \in UploadNames : TRUE]
    /\ pc = [p \in Procs |-> IF p = Monitor THEN "d_start" ELSE "unused"]

ThreadSteps ==
    \/ run_directory_monitor
    \/ D_Call
    \/ monitor_directory
    \/ process_file(Monitor)

SpecThread == ThreadInit /\ [][ThreadSteps]_vars

(***************************************************************************)
(* SpecMain: the web server from the start of main(): the main thread      *)
(* starts the monitor thread and waits for it, while up to NumExitCalls    *)
(* calls of graceful_exit are made (by the signal handler at any point, by *)
(* the atexit hook).  The module is either the program or imported.  Both  *)
(* threads are scheduled again and again; signals need not arrive.         *)
(***************************************************************************)
MainInit ==
    /\ links = {}
    /\ exit_done = FALSE
    /\ \E as_main \in BOOLEAN : ge = [GeIdle EXCEPT !.as_main = as_main]
    /\ main_pc = "main_start"
    /\ RenewalIdle
    /\ PipelineIdle
    /\ cfg_is_inited = FALSE
    /\ clock = 0
    /\ cfg = DefaultCfg
    /\ fs = StaticFiles
    /\ scoreboard = << >>
    /\ stop_supplied = TRUE
    /\ j_file = [j \in Jobs |-> CHOOSE n \in UploadNames : TRUE]
    /\ pc = [p \in Procs |-> "unused"]

MainNext ==
    \/ main
    \/ run_directory_monitor
    \/ graceful_exit

SpecMain ==
    /\ MainInit
    /\ [][MainNext]_vars
    /\ WF_vars(main)
    /\ WF_vars(run_directory_monitor)
    /\ WF_vars(GeSteps)

(***************************************************************************)
(* SpecWeb: NumWebJobs uploads are handled by run_translation, each in its *)
(* own thread, with the scoreboard callbacks configured.                   *)
(***************************************************************************)
WebJobs == 1 .. NumWebJobs

\* an upload handled earlier in the same second, whose job ended with False when
\* the client could not be opened (OSError) and whose log file could not be
\* opened: its entry, its log path and its upload are what it left behind
EarlierUpload == <<"tmp", CHOOSE n \in UploadNames : TRUE>>

EarlierEntry ==
    [NewEntry(KeyOf(0, 0), EarlierUpload, NumJobs + 1)
        EXCEPT !.log_file = LogFilePath(Name(EarlierUpload), 0)]

WebInit ==
    /\ links = {}
    /\ ExitIdle
    /\ RenewalIdle
    /\ PipelineIdle
    /\ cfg_is_inited = TRUE
    /\ clock = 0
    /\ cfg \in {c \in SharedCfgs : c.usage_renewal_day = 0}
    /\ stop_supplied = TRUE
    /\ j_file \in [Jobs -> UploadNames]
    /\ \A j \in Jobs \ WebJobs : j_file[j] = CHOOSE n \in UploadNames : TRUE
    /\ pc = [p \in Procs |-> IF p \in WebJobs THEN "r_upload" ELSE "unused"]
    /\ \E earlier \in BOOLEAN :
         /\ fs = StaticFiles \cup (IF earlier THEN {EarlierUpload} ELSE {})
         /\ scoreboard = IF earlier THEN (KeyOf(0, 0) :> EarlierEntry) ELSE << >>

WebNext ==
    \/ \E j \in WebJobs : run_translation(j)
    \/ \E j \in WebJobs : unique_timestamp_key(j)
    \/ \E j \in WebJobs : process_file(j)
    \/ \E j \in WebJobs : callbacks(j)
    \/ Tick

SpecWeb == WebInit /\ [][WebNext]_vars

(***************************************************************************)
(* SpecBoard: the two update callbacks of run_translation applied to       *)
(* scoreboards that have or lack the key the callback was made for.        *)
(***************************************************************************)
\* the keys of the scoreboards drawn
BoardKeys == {KeyOf(0, 0), KeyOf(0, 1), KeyOf(1, 0)}

\* the entries a key can have: the log and output paths recorded or not
BoardEntries(key) ==
    {[NewEntry(key, EarlierUpload, NumJobs + 1) EXCEPT !.log_file = l, !.output_file = o] :
        l \in {NoPath, LogFilePath(Name(EarlierUpload), 0)},
        o \in {NoPath, <<"output", Name(EarlierUpload)>>}}

Scoreboards ==
    UNION {{b \in [ks -> UNION {BoardEntries(k) : k \in ks}] : \A k \in ks : b[k].id = k} :
             ks \in SUBSET BoardKeys}

\* the locals of a job that is about to call one of its callbacks
CallbackLocals(j) ==
    [PfIdle EXCEPT !.arg = <<"tmp", j_file[j]>>,
                   !.log = LogFilePath(j_file[j], 0),
                   !.paths = [input |-> <<"tmp", j_file[j]>>,
                              tmp |-> NoPath,
                              output |-> <<"output", j_file[j]>>]]

BoardInit ==
    /\ links = {}
    /\ ExitIdle
    /\ RenewalIdle
    /\ ServerIdle
    /\ cfg_is_inited = TRUE
    /\ scoreboard_lock = NoHolder
    /\ j_base = [j \in Jobs |-> 0]
    /\ j_counter = [j \in Jobs |-> 0]
    /\ j_cfg = [j \in Jobs |-> [DefaultCfg EXCEPT !.callbacks = j \in WebJobs]]
    /\ handlers = {}
    /\ gp = [k \in Derivations |-> GpIdle]
    /\ m_listing = {}
    /\ m_wait = 0
    /\ m_slept = <<>>
    /\ m_exc = <<>>
    /\ stop_monitoring = FALSE
    /\ is_quota_exceeded = FALSE
    /\ is_fatal_error = FALSE
    /\ clock = 0
    /\ cfg = DefaultCfg
    /\ stop_supplied = TRUE
    /\ j_file = [j \in Jobs |-> CHOOSE n \in UploadNames : TRUE]
    /\ fs = StaticFiles
    /\ scoreboard \in Scoreboards
    /\ j_key \in [Jobs -> BoardKeys \cup {NoKey}]
    /\ \A j \in Jobs : j_key[j] = NoKey <=> j \notin WebJobs
    /\ pc \in [Procs -> {"unused", "pf_log_callback", "pf_done_callback"}]
    /\ \A p \in Procs : pc[p] = "unused" <=> p \notin WebJobs
    /\ pf = [p \in Procs |-> IF p \in WebJobs THEN CallbackLocals(p) ELSE PfIdle]

BoardNext == \E j \in WebJobs : callbacks(j)

SpecBoard == BoardInit /\ [][BoardNext]_vars

(***************************************************************************)
(* SpecJobs: two on-demand jobs side by side.  Each is a request that has   *)
(* saved its upload and is about to clone cfg, or a job whose output exists *)
(* and that is about to call its completion callback.                       *)
(***************************************************************************)
JobPair == {1, 2}

\* the key of a job that is about to call its completion callback: the keys
\* of such jobs were made in the order of the jobs, in the same second
KeyBefore(j, completing) == KeyOf(0, Cardinality({i \in completing : i < j}))

JobsInit ==
    /\ links = {}
    /\ ExitIdle
    /\ RenewalIdle
    /\ ServerIdle
    /\ cfg_is_inited = TRUE
    /\ scoreboard_lock = NoHolder
    /\ j_base = [j \in Jobs |-> 0]
    /\ j_counter = [j \in Jobs |-> 0]
    /\ handlers = {}
    /\ gp = [k \in Derivations |-> GpIdle]
    /\ m_listing = {}
    /\ m_wait = 0
    /\ m_slept = <<>>
    /\ m_exc = <<>>
    /\ stop_monitoring = FALSE
    /\ is_quota_exceeded = FALSE
    /\ is_fatal_error = FALSE
    /\ clock = 0
    /\ cfg \in {c \in SharedCfgs : c.usage_renewal_day = 0}
    /\ stop_supplied = TRUE
    /\ j_file \in [Jobs -> UploadNames]
    /\ \A j \in Jobs \ JobPair : j_file[j] = CHOOSE n \in UploadNames : TRUE
    /\ \E completing \in SUBSET JobPair :
         /\ pc = [p \in Procs |-> IF p \in completing THEN "pf_done_callback"
                                   ELSE IF p \in JobPair THEN "r_cfg" ELSE "unused"]
         /\ j_key = [j \in Jobs |-> IF j \in completing THEN KeyBefore(j, completing)
                                     ELSE NoKey]
         /\ j_cfg \in [Jobs -> JobCfgs(cfg) \cup {DefaultCfg}]
         /\ \A j \in Jobs : j_cfg[j] = DefaultCfg <=> j \notin completing
         /\ pf = [p \in Procs |-> IF p \in completing THEN CallbackLocals(p) ELSE PfIdle]
         /\ fs = StaticFiles \cup {<<"tmp", j_file[j]>> : j \in JobPair}
                    \cup {<<"output", j_file[j]>> : j \in completing}
         /\ scoreboard =
              [k \in {KeyBefore(j, completing) : j \in completing} |->
                 LET j == CHOOSE i \in completing : KeyBefore(i, completing) = k
                 IN  [NewEntry(k, <<"tmp", j_file[j]>>, j)
                        EXCEPT !.log_file = LogFilePath(j_file[j], 0)]]

JobsNext ==
    \/ \E j \in JobPair : R_CfgAcquire(j)
    \/ \E j \in JobPair : R_Clone(j)
    \/ \E j \in JobPair : unique_timestamp_key(j)
    \/ \E j \in JobPair : R_Spawn(j)
    \/ \E j \in JobPair : PF_Start(j)
    \/ \E j \in JobPair : callbacks(j)

SpecJobs == JobsInit /\ [][JobsNext]_vars

(***************************************************************************)
(* SpecServer: the web server from its start: the monitor thread           *)
(* initializes cfg, uploads are handled by run_translation and translated   *)
(* in their own threads, and a handler thread serves the other requests.    *)
(* monitor_directory itself takes none of the locks and is not run here.    *)
(***************************************************************************)
ServerInit ==
    /\ links = {}
    /\ ExitIdle
    /\ RenewalIdle
    /\ PipelineIdle
    /\ cfg_is_inited = FALSE
    /\ clock = 0
    /\ cfg = DefaultCfg
    /\ stop_supplied = TRUE
    /\ j_file = [j \in Jobs |-> CHOOSE n \in UploadNames : TRUE]
    /\ pc = [p \in Procs |-> IF p = Monitor THEN "d_start"
                              ELSE IF p \in WebJobs THEN "r_upload" ELSE "unused"]
    /\ \E earlier \in BOOLEAN, translated \in BOOLEAN :
         /\ fs = StaticFiles \cup (IF earlier THEN {EarlierUpload} ELSE {})
                    \cup (IF translated THEN {<<"output", Name(EarlierUpload)>>} ELSE {})
         /\ scoreboard = IF earlier THEN (KeyOf(0, 0) :> EarlierEntry) ELSE << >>

ServerNext ==
    \/ run_directory_monitor
    \/ \E j \in WebJobs : run_translation(j)
    \/ \E j \in WebJobs : unique_timestamp_key(j)
    \/ \E j \in WebJobs : process_file(j)
    \/ \E j \in WebJobs : callbacks(j)
    \/ handler

SpecServer == ServerInit /\ [][ServerNext]_vars

(***************************************************************************)
(* SpecFlags: the web server after its start: the monitor thread is in     *)
(* monitor_directory, on-demand workers are about to come back from        *)
(* process_file with any outcome, and requests arrive.                     *)
(***************************************************************************)
WorkerOutcomes == {"True", "False", "QuotaExceededException", "DeepLException"}

FlagsInit ==
    /\ links = {}
    /\ ExitIdle
    /\ RenewalIdle
    /\ LocksIdle
    /\ cf = CfIdle
    /\ vd = VdIdle
    /\ gp = [k \in Derivations |-> GpIdle]
    /\ scoreboard_lock = NoHolder
    /\ j_base = [j \in Jobs |-> 0]
    /\ j_counter = [j \in Jobs |-> 0]
    /\ j_key = [j \in Jobs |-> NoKey]
    /\ j_cfg = [j \in Jobs |-> DefaultCfg]
    /\ handlers = {}
    /\ \E outcomes \in [Jobs -> WorkerOutcomes] :
         pf = [p \in Procs |-> IF p \in Jobs THEN [PfIdle EXCEPT !.outcome = outcomes[p]]
                                ELSE PfIdle]
    /\ m_listing = {}
    /\ m_wait = 0
    /\ m_slept = <<>>
    /\ m_exc = <<>>
    /\ stop_monitoring = FALSE
    /\ is_quota_exceeded = FALSE
    /\ is_fatal_error = FALSE
    /\ cfg_is_inited = TRUE
    /\ clock = 0
    /\ cfg \in {c \in SharedCfgs : ~c.translate_filename}
    /\ fs = StaticFiles
    /\ scoreboard = << >>
    /\ stop_supplied = TRUE
    /\ j_file = [j \in Jobs |-> CHOOSE n \in UploadNames : TRUE]
    /\ pc = [p \in Procs |-> IF p = Monitor THEN "d_monitoring" ELSE "pf_done"]

FlagsNext ==
    \/ \E j \in Jobs : W_After(j)
    \/ D_Crash
    \/ handler
    \/ H_Reject

SpecFlags == FlagsInit /\ [][FlagsNext]_vars

(***************************************************************************)
(* SpecPaths: two invocations of process_file derive their paths with      *)
(* generate_file_path_vars; each is the monitor's, for an entry of the     *)
(* input directory, or an on-demand job's, for an upload in tmp_dir.       *)
(***************************************************************************)
\* the file_path arguments: the monitor's documents and the uploads
PathArgs ==
    {<<"input", n>> : n \in DocumentNames} \cup {<<"tmp", n>> : n \in UploadNames}

\* the configurations: the shared one, or a job's clone of it
PathCfgs == UNION {{shared} \cup JobCfgs(shared) : shared \in SharedCfgs}

PathsInit ==
    /\ links = {}
    /\ ExitIdle
    /\ RenewalIdle
    /\ ServerIdle
    /\ cfg_is_inited = FALSE
    /\ scoreboard_lock = NoHolder
    /\ j_base = [j \in Jobs |-> 0]
    /\ j_counter = [j \in Jobs |-> 0]
    /\ j_key = [j \in Jobs |-> NoKey]
    /\ j_cfg = [j \in Jobs |-> DefaultCfg]
    /\ handlers = {}
    /\ pf = [p \in Procs |-> PfIdle]
    /\ m_listing = {}
    /\ m_wait = 0
    /\ m_slept = <<>>
    /\ m_exc = <<>>
    /\ stop_monitoring = FALSE
    /\ is_quota_exceeded = FALSE
    /\ is_fatal_error = FALSE
    /\ clock = 0
    /\ cfg = DefaultCfg
    /\ scoreboard = << >>
    /\ stop_supplied = FALSE
    /\ j_file = [j \in Jobs |-> CHOOSE n \in UploadNames : TRUE]
    /\ pc = [p \in Procs |-> "unused"]
    /\ gp \in [Derivations -> { [GpIdle EXCEPT !.pc = "call", !.arg = a, !.cfg = c, !.t = t] :
                                  a \in PathArgs, c \in PathCfgs, t \in 0 .. MaxClock }]
    /\ fs = StaticFiles \cup {gp[k].arg : k \in Derivations}

PathsNext == \E k \in Derivations : GP_Call(k)

SpecPaths == PathsInit /\ [][PathsNext]_vars

(***************************************************************************)
(* SpecRenewal: one call of num_seconds_till_renewal on inputs drawn from  *)
(* bounded sets.                                                           *)
(***************************************************************************)
RenewalInit ==
    /\ links = {}
    /\ ExitIdle
    /\ rn_pc = "call"
    /\ rn_day \in RenewalDays
    /\ rn_default \in DefaultDaysValues
    /\ rn_now \in Nows
    /\ rn_result = NoResult
    /\ PipelineIdle
    /\ cfg_is_inited = FALSE
    /\ clock = 0
    /\ cfg = DefaultCfg
    /\ fs = StaticFiles
    /\ scoreboard = << >>
    /\ stop_supplied = FALSE
    /\ j_file = [j \in Jobs |-> CHOOSE n \in UploadNames : TRUE]
    /\ pc = [p \in Procs |-> "unused"]

RenewalCall ==
    /\ rn_pc = "call"
    /\ rn_result' = num_seconds_till_renewal(rn_day, rn_default, rn_now)
    /\ rn_pc' = "done"
    /\ UNCHANGED <<pathVars, srvVars, cfg_lock, lock_io, rn_day, rn_default, rn_now, clock, scoreboard, scoreboard_lock, pc,
                   keyLocals, j_cfg, cfg, fs, handlers, pf, monVars, webFlags>>

RenewalNext == RenewalCall

SpecRenewal == RenewalInit /\ [][RenewalNext]_vars

(***************************************************************************)
(* SpecKey: NumJobs threads call unique_timestamp_key concurrently.        *)
(***************************************************************************)
KeyInit ==
    /\ links = {}
    /\ ExitIdle
    /\ RenewalIdle
    /\ PipelineIdle
    /\ cfg_is_inited = FALSE
    /\ clock = 0
    /\ cfg = DefaultCfg
    /\ fs = StaticFiles
    /\ scoreboard = << >>
    /\ stop_supplied = FALSE
    /\ j_file \in [Jobs -> UploadNames]
    /\ pc = [p \in Procs |-> IF p \in Jobs THEN "k_start" ELSE "unused"]

KeyNext == (\E j \in Jobs : unique_timestamp_key(j)) \/ Tick

SpecKey == KeyInit /\ [][KeyNext]_vars

(***************************************************************************)
(* Claims about process_file.                                              *)
(***************************************************************************)
\* process_file has been left by p and its caller has not yet gone on
Returned(p) == pc[p] = "pf_done"

Stages(p) == {pf[p].trace[i] : i \in 1 .. Len(pf[p].trace)}

Deleted(p) == {pf[p].deleted[i] : i \in 1 .. Len(pf[p].deleted)}

\* the translate-document operation reported quota exhaustion
QuotaReported(p) ==
    pf[p].send \in {<<"QuotaExceededException">>,
                    <<"DocumentTranslationException", QuotaSentence>>}

\* the translate-document operation failed for another reason
TranslationFailed(p) ==
    /\ pf[p].send # NotSent
    /\ pf[p].send[1] \in {"Exception", "DocumentTranslationException"}
    /\ ~QuotaReported(p)

\* the provider client could not be opened
ConnectFailed(p) == pf[p].conn \notin {"none", "ok"}

\* C2: when the translate-document operation reports quota exhaustion,
\* process_file raises QuotaExceededException and has made no merge, no cleanup
\* deletion, no completion callback and no notification.
C2_QuotaIsRaised ==
    \A p \in Procs : (Returned(p) /\ QuotaReported(p)) =>
        /\ pf[p].outcome = "QuotaExceededException"
        /\ Stages(p) \cap {"merge", "cleanup", "callback", "notify"} = {}
        /\ pf[p].deleted = <<>>
        /\ (p \in Jobs /\ j_key[p] \in DOMAIN scoreboard)
             => scoreboard[j_key[p]].output_file = NoPath

\* the quota was reported by a document-translation error carrying the quota text
C2_Witness ==
    \E p \in Procs :
        /\ Returned(p)
        /\ pf[p].send = <<"DocumentTranslationException", QuotaSentence>>
        /\ pf[p].outcome = "QuotaExceededException"
        /\ CfgOf(p).callbacks

NoTranslatedFile(p) ==
    /\ "translate" \in Stages(p)
    /\ "merge" \notin Stages(p)
    /\ pf[p].outcome \in {"True", "False"}

\* C6 (as claimed): when the temporary translated file does not exist after the
\* translate stage, process_file returns False, deletes neither the original nor
\* the working copy, and does not fire the completion callback.
C6_NoTranslationNoEffects ==
    \A p \in Procs : (Returned(p) /\ NoTranslatedFile(p)) =>
        /\ pf[p].outcome = "False"
        /\ pf[p].deleted = <<>>
        /\ pf[p].arg \in fs
        /\ "callback" \notin Stages(p)

\* C7: when process_file returns True the output file exists, the temporary
\* translated file, the working copy and the original were each handed to
\* delete_file, and with a completion callback configured the job's scoreboard
\* entry has its output path set.
C7_SuccessLeavesOutput ==
    \A p \in Procs : (Returned(p) /\ pf[p].outcome = "True") =>
        /\ pf[p].paths.output \in fs
        /\ {pf[p].paths.tmp, pf[p].paths.input, pf[p].arg} \subseteq Deleted(p)
        /\ CfgOf(p).callbacks =>
              /\ j_key[p] \in DOMAIN scoreboard
              /\ scoreboard[j_key[p]].output_file = pf[p].paths.output

\* a job with the callbacks configured has returned True
C7_Witness ==
    \E p \in Jobs :
        /\ Returned(p)
        /\ pf[p].outcome = "True"
        /\ CfgOf(p).callbacks
        /\ scoreboard[j_key[p]].output_file = pf[p].paths.output

\* C8 (as claimed): on every exit path of process_file the log handler attached at
\* the start of the invocation has been removed from the logger.
C8_HandlerRemoved ==
    \A p \in Procs : Returned(p) =>
        (pf[p].handler = NoHandler \/ pf[p].handler \notin handlers)

\* C15: whatever the completion notifier does (it reports success, reports
\* failure, reports nothing, or raises the RuntimeError of an internal failure),
\* the step of process_file that runs it returns the result computed before it,
\* leaves the files on disk as they were, and does not raise.
C15_NotifierDoesNotChangeResult ==
    [][\A p \in Procs :
         (pc[p] = "pf_finish" /\ pc'[p] = "pf_done") =>
            /\ pf'[p].outcome = (IF pf[p].result THEN "True" ELSE "False")
            /\ fs' = fs]_vars

\* single file mode has returned True although the notifier failed internally
C15_Witness ==
    /\ pc[Monitor] = "exit_0"
    /\ pf[Monitor].notify = "RuntimeError"
    /\ pf[Monitor].outcome = "True"
    /\ pf[Monitor].paths.output \in fs

(***************************************************************************)
(* Claims about the scoreboard callbacks.                                  *)
(***************************************************************************)
\* process p is inside the with block of one of its callbacks
InCallback(p) == pc[p] \in {"pf_log_callback_locked", "pf_done_callback_locked"}

\* C17: a log-created or output-created callback for a key the scoreboard does
\* not have raises nothing (process_file goes on to its next step), inserts no
\* entry and leaves every entry as it was.
C17_MissingKeyIsNoOp ==
    [][\A p \in Procs :
         (InCallback(p) /\ j_key[p] \notin DOMAIN scoreboard /\ pc'[p] # pc[p]) =>
            /\ scoreboard' = scoreboard
            /\ pc'[p] = (IF pc[p] = "pf_log_callback_locked" THEN "pf_paths"
                         ELSE "pf_finish")]_vars

\* the output-created callback has run for a key the scoreboard lacks, which
\* holds another key's entry
C17_Witness ==
    \E p \in Procs :
        /\ pc[p] = "pf_finish"
        /\ pf[p].trace = <<"callback">>
        /\ j_key[p] \notin DOMAIN scoreboard
        /\ scoreboard # << >>

(***************************************************************************)
(* Claims about the request handlers and the locks.                        *)
(***************************************************************************)
\* check_output has answered and no other request has arrived since
Answered == rq.pc = "idle" /\ rq.response.endpoint = "check_output"

\* C18 (as claimed): check_output answers ready=true with the output's name only
\* if the key's entry has its output path set, and the path is set only once the
\* job of that key has made its final output file; for an unknown key or an entry
\* without output path it answers ready=false and no name; and after a ready=true
\* for a key every later answer for that key is ready=true.
C18_ReadyMeansOutputMade ==
    /\ [](Answered =>
            /\ rq.response.ready =>
                  /\ rq.job_id \in DOMAIN scoreboard
                  /\ scoreboard[rq.job_id].output_file # NoPath
                  /\ rq.response.filename = Name(scoreboard[rq.job_id].output_file)
            /\ (rq.job_id \notin DOMAIN scoreboard
                    \/ scoreboard[rq.job_id].output_file = NoPath) =>
                  (~rq.response.ready /\ rq.response.filename = NoPath)
            /\ rq.job_id \in ready_seen => rq.response.ready)
    /\ [][\A k \in DOMAIN scoreboard :
            (k \in DOMAIN scoreboard' /\ scoreboard'[k].output_file # scoreboard[k].output_file) =>
               /\ scoreboard'[k].output_file \in fs
               /\ \E p \in Jobs : j_key[p] = k /\ pf[p].result]_vars

\* C19 (as claimed): no file-system access, log write or other blocking call is
\* made between acquiring and releasing scoreboard_lock.
C19_NoIoUnderScoreboardLock == lock_io = {}

\* the locks thread t holds
HeldBy(t) ==
    {l \in {"cfg_lock", "scoreboard_lock", "monitor_thread_lock"} :
        (IF l = "cfg_lock" THEN cfg_lock
         ELSE IF l = "scoreboard_lock" THEN scoreboard_lock
         ELSE monitor_thread_lock) = t}

Threads == Jobs \cup {Handler, MonitorThread}

\* the steps of thread t
ThreadNext(t) ==
    IF t = Handler THEN handler
    ELSE IF t = MonitorThread THEN run_directory_monitor
    ELSE run_translation(t) \/ unique_timestamp_key(t) \/ process_file(t) \/ callbacks(t)

\* C20: no thread holds more than one of cfg_lock, scoreboard_lock and
\* monitor_thread_lock, and a thread that holds one can take its next step, so no
\* thread waits for a lock while holding another.
C20_LocksNeverNested ==
    \A t \in Threads :
        /\ Cardinality(HeldBy(t)) <= 1
        /\ HeldBy(t) # {} => ENABLED ThreadNext(t)

\* the handler thread holds scoreboard_lock for the main page, having held and
\* released cfg_lock, while a job waits for scoreboard_lock in its callback
C20_Witness ==
    /\ rq.pc = "i_board_locked"
    /\ HeldBy(Handler) = {"scoreboard_lock"}
    /\ \E j \in Jobs : pc[j] \in {"pf_log_callback", "pf_done_callback"}

\* thread t takes the step
Stepped(t) ==
    IF t = Handler THEN rq' # rq
    ELSE IF t = MonitorThread THEN pc'[Monitor] # pc[Monitor]
    ELSE pc'[t] # pc[t]

\* C33: every write to cfg, cfg_is_inited, is_quota_exceeded and is_fatal_error
\* is made by a thread that holds a lock.
C33_SharedWritesUnderLock ==
    [][(\/ cfg' # cfg
        \/ cfg_is_inited' # cfg_is_inited
        \/ is_quota_exceeded' # is_quota_exceeded
        \/ is_fatal_error' # is_fatal_error)
          => \E t \in Threads : Stepped(t) /\ HeldBy(t) # {}]_vars

\* an exception has left init_autotranslate or monitor_directory
MonitorRaised == pc[Monitor] \in {"d_except", "m_raised"}

\* C36: an exception that leaves initialization or monitor_directory makes
\* run_directory_monitor set is_fatal_error and clear cfg_is_inited; the thread
\* then ends: the monitoring loop is not started again and no directory pass
\* follows.
C36_CrashIsFatalAndFinal ==
    /\ [][MonitorRaised => \/ pc'[Monitor] = pc[Monitor]
                            \/ /\ pc'[Monitor] = "d_failed"
                               /\ is_fatal_error'
                               /\ ~cfg_is_inited']_vars
    /\ [](pc[Monitor] = "d_failed" => is_fatal_error /\ ~cfg_is_inited)
    /\ [][pc[Monitor] = "d_failed" =>
             /\ pc'[Monitor] = "d_failed"
             /\ m_listing' = m_listing
             /\ pf'[Monitor] = pf[Monitor]]_vars

\* the exception of the provider client left process_file and the monitoring
\* loop after an earlier file had been translated, and the thread has ended
C36_Witness ==
    /\ pc[Monitor] = "d_failed"
    /\ m_exc # <<>> /\ m_exc[1] = "process_file"
    /\ is_fatal_error /\ ~cfg_is_inited
    /\ \E f \in fs : Dir(f) = "output"

(***************************************************************************)
(* Claims about the web server's main thread.                              *)
(***************************************************************************)
\* C37: whatever the interleaving of the calls of the web server's graceful_exit,
\* at most one of them executes the body after the exit_done guard (the stop
\* event is set, the monitor thread joined, the handlers flushed and closed).
C37_BodyRunsOnce ==
    Cardinality({c \in ExitCalls : ge.at[c] \in GeBody}) <= 1

\* main() is before its wait for cfg_is_inited or in it
MainWaiting == {"main_start", "main_wait", "main_sleep"}

\* C38: after main has started the monitor thread, its loop waiting for
\* cfg_is_inited ends in every execution, whether initialization succeeds or
\* fails.
C38_StartupWaitEnds ==
    <>(main_pc \notin MainWaiting)

\* a request for the index page arrives
IndexRequested == rq.pc = "idle" /\ rq' # rq /\ rq'.endpoint = "index"

\* C39: once is_quota_exceeded or is_fatal_error is true no step makes it false
\* again, and every request for the index page made after that is answered with
\* the crash page or the quota page.
C39_FlagsStayAndPageFollows ==
    /\ [][(is_quota_exceeded => is_quota_exceeded')
           /\ (is_fatal_error => is_fatal_error')]_vars
    /\ [][(IndexRequested /\ (is_quota_exceeded \/ is_fatal_error)) =>
             rq'.pc = "i_flags"]_vars
    /\ [][(rq.pc = "i_flags" /\ rq' # rq /\ (is_quota_exceeded \/ is_fatal_error)) =>
             \/ rq'.pc = "i_fatal_acquire"
             \/ rq'.pc = "idle" /\ rq'.response.page = "quota"]_vars
    /\ [][rq.pc \in {"i_fatal_acquire", "i_fatal_locked"} =>
             \/ rq'.pc \in {"i_fatal_acquire", "i_fatal_locked"}
             \/ rq'.pc = "idle" /\ rq'.response.page = "crash"]_vars

(***************************************************************************)
(* Claims about clean_filename and get_clean_input_file.                   *)
(***************************************************************************)
\* what the replacements and unidecode make of character c
Transliterated(c) == MapChars(Unidecode, ManualReplace[c])

\* c is whitespace, or no character it is transliterated to is allowed
NotAllowed(c) ==
    \/ c \in Whitespace
    \/ \A i \in 1 .. Len(Transliterated(c)) : Transliterated(c)[i] \notin SafeChars

OnlyNotAllowed(name) == \A i \in 1 .. Len(name) : NotAllowed(name[i])

\* the results of one or two dots, for which the claim expects the error as well
DotNames == {<<".">>, <<".", ".">>}

Cleaned == cf.pc \in {"cleaned", "again", "done"}

\* C21 (as claimed): clean_filename raises FilenameCleanseError for every name
\* made only of whitespace and characters that are not allowed after
\* transliteration, and when the result is '.' or '..'; for every other name it
\* returns a non-empty string of allowed characters.
C21_RaisesIffNothingAllowed ==
    Cleaned =>
        IF OnlyNotAllowed(cf.name)
              \/ filtered_name(cf.name) \in DotNames
        THEN cf.first.exc = "FilenameCleanseError"
        ELSE /\ cf.first.exc = "none"
             /\ cf.first.value # <<>>
             /\ \A i \in 1 .. Len(cf.first.value) : cf.first.value[i] \in SafeChars

\* C22: when clean_filename succeeds on a name, it succeeds on its result and
\* returns it unchanged; and for a name that clean_filename returns unchanged,
\* get_clean_input_file returns the file's own path and copies nothing.
C22_CleanIsIdempotent ==
    /\ (cf.pc \in {"again", "done"} /\ cf.first.exc = "none") =>
          cf.second = cf.first
    /\ (cf.pc = "done" /\ cf.first.exc = "none" /\ cf.first.value = cf.name) =>
          /\ cf.copy.exc = "none"
          /\ cf.copy.value = <<"input", cf.name>>
          /\ fs = StaticFiles \cup {<<"input", cf.name>>}

\* a name with whitespace and a non-ASCII character was cleaned to another name,
\* copied under it, and cleaning that name again changed nothing
C22_Witness ==
    /\ cf.pc = "done"
    /\ cf.name = <<"a", " ", "U+00E9">>
    /\ cf.first.exc = "none"
    /\ cf.second.value = <<"a", "_", "e">>
    /\ cf.copy.value = <<"tmp", <<"a", "_", "e">>>>

(***************************************************************************)
(* Claims about the stages of process_file.                                *)
(***************************************************************************)
\* the stages in the order of the text of process_file; "callback" is the
\* completion callback, which is part of the cleanup block
StageOrder == <<"paths", "translate", "merge", "cleanup", "callback", "notify">>

Rank(stage) == CHOOSE i \in 1 .. Len(StageOrder) : StageOrder[i] = stage

\* no stage is repeated and none is entered after a later one
InOrder(trace) ==
    \A i, k \in 1 .. Len(trace) : i < k => Rank(trace[i]) < Rank(trace[k])

\* C26: within one process_file invocation the stages occur only in the order
\* path derivation, translate, merge, cleanup, notify, none repeated: translate
\* only after the triplet was derived and the working copy exists, merge only
\* after translate, cleanup deletions only after merge, notification only after
\* cleanup.
C26_StagesInOrder ==
    \A p \in Procs :
        /\ InOrder(pf[p].trace)
        /\ "translate" \in Stages(p) => "paths" \in Stages(p) /\ pf[p].paths # NoPaths
        /\ "merge" \in Stages(p) => "translate" \in Stages(p)
        /\ "cleanup" \in Stages(p) => "merge" \in Stages(p)
        /\ "notify" \in Stages(p) => "cleanup" \in Stages(p)

\* the step in which p makes the cleanup deletions
CleanupStep(p) == pf[p].deleted = <<>> /\ pf'[p].deleted # <<>>

\* the i-th and the k-th delete_file of a cleanup are handed the same path
SameDeleted(deleted, i, k) == i < k /\ deleted[i] = deleted[k]

C29_NoLeftovers ==
    \A p \in Procs : (Returned(p) /\ pf[p].paths # NoPaths) =>
        /\ pf[p].paths.tmp \notin fs
        /\ pf[p].paths.input # pf[p].arg => pf[p].paths.input \notin fs

\* the name of the file handed to process_file cannot be sanitized
Unsanitizable(p) == clean_filename(Name(pf[p].arg)).exc # "none"

\* the file handed to process_file was not there and is not there
InputMissing(p) == pf[p].arg \notin fs /\ pf[p].arg \notin Deleted(p)

\* C30: when the file name cannot be sanitized, or the input file does not
\* exist, process_file returns False without raising, without calling the
\* provider, and without deleting or creating a file.
C30_EarlyFailureIsQuiet ==
    \A p \in Procs : (Returned(p) /\ (Unsanitizable(p) \/ InputMissing(p))) =>
        /\ pf[p].outcome = "False"
        /\ pf[p].conn = "none" /\ pf[p].send = NotSent
        /\ pf[p].deleted = <<>>
        /\ Stages(p) \subseteq {"paths"}
        /\ \A f \in fs : Dir(f) # "tmp"

Unusable(dirs, name) == dirs[name] \in {"uncreatable", "readonly"}

Validated == vd.pc \in {"validated", "working", "exit_2"}

\* C25: validate_directories raises ConfigurationError exactly when the input,
\* output or temporary directory cannot be created or written, whatever the log
\* directory is like; when it raises, main() ends with exit code 2 before any
\* work, and otherwise the work starts.
C25_OnlyLogDirIsOptional ==
    /\ Validated =>
          (vd.result.exc = "ConfigurationError"
             <=> \E name \in {"input_dir", "output_dir", "tmp_dir"} : Unusable(vd.before, name))
    /\ Validated => vd.result.exc \in {"none", "ConfigurationError"}
    /\ vd.pc = "exit_2" => vd.result.exc = "ConfigurationError"
    /\ vd.pc = "working" =>
          /\ vd.result.exc = "none"
          /\ \A name \in {"input_dir", "output_dir", "tmp_dir"} : vd.dirs[name] = "writable"

\* the work has started although the log directory cannot be written, the
\* temporary directory having been created
C25_Witness ==
    /\ vd.pc = "working"
    /\ vd.before["log_dir"] = "readonly"
    /\ vd.before["tmp_dir"] = "absent"
    /\ vd.dirs["log_dir"] = "readonly"

(***************************************************************************)
(* Claims about generate_file_path_vars.                                   *)
(***************************************************************************)
Derived(k) == gp[k].pc = "done"

\* derivation k called the translator and the translator failed
TranslatorFailed(k) == gp[k].result.xlate \notin {NotTranslated, "none"}

\* C14 (as claimed): with filename translation enabled, whatever way the
\* translator fails, generate_file_path_vars raises nothing, returns a path
\* triplet, and the output basename is the sanitized basename of the input.
C14_TranslatorFailureFallsBack ==
    \A k \in Derivations : (Derived(k) /\ TranslatorFailed(k)) =>
        /\ gp[k].result.exc = "none"
        /\ gp[k].result.paths # NoPaths
        /\ Stem(Name(gp[k].result.paths.output)) = Stem(Name(gp[k].result.paths.input))

\* the working files of derivation k
Triplet(k) ==
    {gp[k].result.paths.input, gp[k].result.paths.tmp, gp[k].result.paths.output}

\* the two invocations can run at the same time: two on-demand jobs, or an
\* on-demand job and the monitor (there is one monitor)
Concurrent(i, k) == i # k /\ ~(Dir(gp[i].arg) = "input" /\ Dir(gp[k].arg) = "input")

\* C16 (as claimed): the sanitized-input, temporary and output paths of two
\* concurrent invocations are pairwise distinct, also for two uploads of the same
\* name in the same second.
C16_NoSharedWorkingFile ==
    \A i, k \in Derivations :
        (Concurrent(i, k) /\ Derived(i) /\ Derived(k)
           /\ gp[i].result.paths # NoPaths /\ gp[k].result.paths # NoPaths) =>
            Triplet(i) \cap Triplet(k) = {}

\* both derivations returned a path triplet
BothDerived(i, k) ==
    /\ Derived(i) /\ Derived(k)
    /\ gp[i].result.paths # NoPaths /\ gp[k].result.paths # NoPaths

\* C23 (as claimed): two jobs whose paths are derived at different seconds get
\* different temporary paths and different output paths, also when their source
\* files have the same name.
C23_DifferentSecondsDifferentPaths ==
    \A i, k \in Derivations :
        (i # k /\ BothDerived(i, k) /\ gp[i].t # gp[k].t) =>
            /\ gp[i].result.paths.tmp # gp[k].result.paths.tmp
            /\ gp[i].result.paths.output # gp[k].result.paths.output

(***************************************************************************)
(* Claims about monitor_directory.                                         *)
(***************************************************************************)
\* C4 (as claimed): after process_file raised quota exhaustion the monitor sleeps
\* the renewal wait and the settle delay, and processes no file until it has
\* enumerated the input directory again.
C4_QuotaBackoff ==
    /\ pc[Monitor] = "m_raised" => m_exc[1] # "num_seconds_till_renewal"
    /\ pc[Monitor] = "m_poll" /\ m_slept # <<>> => m_slept = <<m_wait, SettleSeconds>>
    /\ m_slept # <<>> => pc[Monitor] \in {"m_settle", "m_poll", "m_top", "m_exit"}

\* C5 (as claimed): an exception other than quota exhaustion raised while one file
\* is processed never ends the monitoring loop.
C5_LoopSurvivesProcessFile ==
    pc[Monitor] = "m_raised" => m_exc[1] # "process_file"

\* C27: the monitor sleeps the poll interval only after a pass that completed with
\* no quota exhaustion, and after a quota backoff (renewal wait, settle delay) it
\* enumerates the input directory again with no poll sleep in between: the sleeps
\* made between two tests of the outer loop are the poll interval alone or the
\* two sleeps of the backoff alone.
C27_NoPollAfterBackoff ==
    (pc[Monitor] \in {"m_top", "m_exit"} /\ m_slept # <<>>) =>
        \/ m_slept = <<check_period_sec(cfg)>>
        \/ m_slept = <<m_wait, SettleSeconds>>

\* the entry is a regular file
IsRegularFile(entry) == Name(entry) \in DocumentNames \cup StaticNames

\* the entries the pipeline is to be invoked for: regular files that are not
\* hidden and have the extension .pdf in any letter case
ToBeProcessed(entry) ==
    /\ IsRegularFile(entry)
    /\ Head(Name(entry)) # "."
    /\ Lower(Suffix(Name(entry))) = <<".", "p", "d", "f">>

\* C34: process_file is invoked only for entries that are regular files, not
\* hidden and named .pdf in any letter case, and a pass that is not cut short
\* ends only when no such entry of the enumeration is left.
C34_OnlyRegularPdfFiles ==
    /\ [](pc[Monitor] = "pf_start" => ToBeProcessed(pf[Monitor].arg))
    /\ [][(pc[Monitor] = "m_iter" /\ pc'[Monitor] = "m_poll")
             => \A entry \in m_listing : ~ToBeProcessed(entry)]_vars

\* C35: the file whose processing raised quota exhaustion is not deleted from the
\* input directory, the monitor goes from the except clause to the backoff sleep
\* (it does not end), and the pass after the sleep enumerates every eligible file
\* that is in the input directory and hands each to process_file unless the pass
\* is cut short.
C35_QuotaFileIsRetried ==
    /\ [](\A p \in Procs : (Returned(p) /\ pf[p].outcome = "QuotaExceededException") =>
              /\ pf[p].arg \in fs
              /\ pf[p].deleted = <<>>)
    /\ [][pc[Monitor] = "m_quota" => pc'[Monitor] \in {"m_quota", "m_settle"}]_vars
    /\ [][(pc[Monitor] = "m_top" /\ pc'[Monitor] = "m_iter")
             => \A f \in fs : (Dir(f) = "input" /\ Eligible(f)) => f \in m_listing']_vars
    /\ [][(pc[Monitor] = "m_iter" /\ pc'[Monitor] # "m_iter")
             => \/ pc'[Monitor] = "pf_start" /\ pf'[Monitor].arg \in m_listing
                \/ \A entry \in m_listing : ~Eligible(entry)]_vars

\* the stop event is supplied and set
StopSet == stop_supplied /\ stop_monitoring

\* C12: monitor_directory returns only when a stop event was supplied and is set,
\* and only from the test at the top of the outer loop: a pass and the sleeps after
\* it go on unchanged once the event is set (every eligible entry of the listing is
\* still handed to process_file, the quota and poll sleeps are still made), and at
\* the next test the monitor returns instead of enumerating the directory again.
C12_StopReadAtTopOnly ==
    /\ [](pc[Monitor] = "m_exit" => StopSet)
    /\ [][(pc'[Monitor] = "m_exit" /\ pc[Monitor] # "m_exit") => pc[Monitor] = "m_top"]_vars
    /\ [][(pc[Monitor] = "m_top" /\ StopSet /\ pc'[Monitor] # "m_top")
             => pc'[Monitor] = "m_exit"]_vars
    /\ [][(pc[Monitor] = "m_iter" /\ pc'[Monitor] # "m_iter")
             => pc'[Monitor] = (IF \E entry \in m_listing : Eligible(entry)
                               THEN "pf_start" ELSE "m_poll")]_vars
    /\ [][(pc[Monitor] = "m_poll" /\ pc'[Monitor] # "m_poll")
             => (pc'[Monitor] = "m_top"
                   /\ m_slept' = Append(m_slept, check_period_sec(cfg)))]_vars

\* the monitor has returned after a pass that produced an output file and the
\* poll sleep that followed it
C12_Witness ==
    /\ pc[Monitor] = "m_exit"
    /\ StopSet
    /\ m_slept = <<check_period_sec(cfg)>>
    /\ \E f \in fs : Dir(f) = "output"

(***************************************************************************)
(* Claims about the scoreboard keys.                                       *)
(***************************************************************************)
KeyReturned(j) == pc[j] = "k_done"

\* C1: every call of unique_timestamp_key returns a key no other call
\* returned, and the entry stored under it is the one that call inserted.
C1_KeysUniqueAndOwned ==
    \A j \in Jobs : KeyReturned(j) =>
        /\ j_key[j] \in DOMAIN scoreboard
        /\ scoreboard[j_key[j]].by = j
        /\ scoreboard[j_key[j]].input_file = <<"tmp", j_file[j]>>
        /\ \A i \in Jobs : (i # j /\ KeyReturned(i)) => j_key[i] # j_key[j]

\* all calls have returned and at least two of them read the same second
C1_Witness ==
    /\ \A j \in Jobs : KeyReturned(j)
    /\ \E i, j \in Jobs : i # j /\ j_base[i] = j_base[j] /\ j_counter[i] # j_counter[j]

\* the counters of the keys with timestamp prefix base
CountersOf(base) == {c \in 0 .. NumJobs : KeyOf(base, c) \in DOMAIN scoreboard}

\* C24: for each timestamp prefix the counters in the scoreboard are 000..k-1 for
\* some k (a key is there only if every key of the same prefix with a smaller
\* counter is there, so the keys of a prefix are inserted in counter order), and
\* when all the submissions read the same second they end with the counters
\* 000..N-1.
C24_CountersContiguous ==
    /\ \A base \in 0 .. MaxClock : CountersOf(base) = 0 .. (Cardinality(CountersOf(base)) - 1)
    /\ DOMAIN scoreboard \subseteq {KeyOf(base, c) : base \in 0 .. MaxClock, c \in 0 .. NumJobs}
    /\ ((\A j \in Jobs : KeyReturned(j)) /\ (\A i, j \in Jobs : j_base[i] = j_base[j])) =>
          {j_counter[j] : j \in Jobs} = 0 .. (NumJobs - 1)

\* all the submissions read the same second and have returned, the last of them
\* after finding every smaller counter taken
C24_Witness ==
    /\ \A j \in Jobs : KeyReturned(j) /\ j_base[j] = 0
    /\ {j_counter[j] : j \in Jobs} = 0 .. (NumJobs - 1)
    /\ Cardinality(DOMAIN scoreboard) = NumJobs

(***************************************************************************)
(* Claims about the renewal countdown.                                     *)
(***************************************************************************)

\* C9 (as claimed): the call returns a positive number of seconds without
\* raising, for every integer renewal day and every current date.
C9_AlwaysReturnsPositive ==
    rn_pc = "done" => (rn_result.exc = "none" /\ rn_result.value > 0)

\* C10: for a renewal day outside 1..31 the call returns exactly
\* default_days * 86400 seconds, whatever the current time.
C10_OutOfRangeReturnsDefault ==
    (rn_pc = "done" /\ (rn_day < 1 \/ rn_day > 31)) =>
        (rn_result.exc = "none" /\ rn_result.value = rn_default * 86400)

C10_Witness ==
    /\ rn_pc = "done"
    /\ rn_day = 0
    /\ rn_default = DEFAULT_DAYS
    /\ rn_result = [exc |-> "none", value |-> 604800]

\* the instant the countdown is measured to before the day of buffer: 00:00 UTC of
\* day d of this month when that is after now, of the next month otherwise
NextRenewalStart(d, now) ==
    LET this_month == Midnight(now.year, now.month, d)
        y == IF now.month = 12 THEN now.year + 1 ELSE now.year
        m == IF now.month = 12 THEN 1 ELSE now.month + 1
    IN  IF Instant(this_month) <= Instant(now) THEN Midnight(y, m, d) ELSE this_month

\* C11 (as claimed): for a renewal day in 1..31 the call returns the seconds from
\* now to the next start of that day strictly after now, plus one day; the result
\* is greater than 86400 and at most 32 days; on the 20th a renewal day of 15 counts
\* to the 16th of the next month.
C11_CountsToNextRenewalPlusOneDay ==
    (rn_pc = "done" /\ rn_day \in 1 .. 31) =>
        /\ rn_result.exc = "none"
        /\ rn_result.value =
              (Instant(NextRenewalStart(rn_day, rn_now)) + 2 * SecondsPerDay
                 - Instant(rn_now)) \div 2
        /\ rn_result.value > 86400
        /\ rn_result.value <= 32 * 86400
        /\ (rn_day = 15 /\ rn_now.day = 20) =>
              rn_result.value =
                (Instant(Midnight(AddOneMonth(rn_now).year, AddOneMonth(rn_now).month, 16))
                   - Instant(rn_now)) \div 2

=============================================================================
